---- MODULE Spec2Model ----
(***************************************************************************)
(* SumTrees (applications/sumtrees/sumtrees.py): counting the splits of    *)
(* the support trees in serial mode and in multiprocessing mode, the       *)
(* post-counting rooting check, the construction of the consensus tree     *)
(* and the writing of the results.                                         *)
(*                                                                         *)
(* The library parts SumTrees calls (treesplit.SplitDistribution,          *)
(* treesum.TreeSummarizer, the tree parser and dendropy.TaxonNamespace)    *)
(* are modelled from their design description.                             *)
(***************************************************************************)
EXTENDS Integers, Sequences, FiniteSets, TLC

(***************************************************************************)
(* Bounds of the model.                                                    *)
(***************************************************************************)
\* support files given on the command line
MaxFiles == 2
\* -m / --multiprocessing NUM-PROCESSES
MaxProcesses == 2
\* -b / --burnin
MaxBurnin == 1
\* kill requests delivered in one run
MaxKills == 1

(***************************************************************************)
(* Bit arithmetic on split bitmasks (arbitrary-precision integers in the   *)
(* program, small naturals here).                                          *)
(***************************************************************************)
RECURSIVE BitAnd(_, _)
BitAnd(a, b) ==
    IF a = 0 \/ b = 0 THEN 0
    ELSE ((a % 2) * (b % 2)) + 2 * BitAnd(a \div 2, b \div 2)

RECURSIVE BitOr(_, _)
BitOr(a, b) ==
    IF a = 0 THEN b
    ELSE IF b = 0 THEN a
    ELSE (IF (a % 2) + (b % 2) > 0 THEN 1 ELSE 0) + 2 * BitOr(a \div 2, b \div 2)

RECURSIVE BitXor(_, _)
BitXor(a, b) ==
    IF a = 0 THEN b
    ELSE IF b = 0 THEN a
    ELSE (((a % 2) + (b % 2)) % 2) + 2 * BitXor(a \div 2, b \div 2)

RECURSIVE count_bits(_)
count_bits(a) == IF a = 0 THEN 0 ELSE (a % 2) + count_bits(a \div 2)

RECURSIVE Pow2(_)
Pow2(n) == IF n = 0 THEN 1 ELSE 2 * Pow2(n - 1)

Min(a, b) == IF a <= b THEN a ELSE b

(***************************************************************************)
(* Taxon namespace: the ordered labels; the bit index of a label is its    *)
(* position of first registration.                                         *)
(***************************************************************************)
RECURSIVE IndexOf(_, _)
IndexOf(ns, label) ==
    IF ns = << >> THEN 0
    ELSE IF Head(ns) = label THEN 1
    ELSE IF IndexOf(Tail(ns), label) = 0 THEN 0
    ELSE 1 + IndexOf(Tail(ns), label)

HasTaxon(ns, label) == IndexOf(ns, label) # 0

\* the namespace is mutable (nothing in SumTrees locks it): a label not yet
\* registered is appended and gets the next bit index
require_taxon(ns, label) == IF HasTaxon(ns, label) THEN ns ELSE Append(ns, label)

RECURSIVE RegisterAll(_, _)
RegisterAll(ns, labels) ==
    IF labels = << >> THEN ns
    ELSE RegisterAll(require_taxon(ns, Head(labels)), Tail(labels))

taxon_bitmask(ns, label) == Pow2(IndexOf(ns, label) - 1)

all_taxa_bitmask(ns) == Pow2(Len(ns)) - 1

(***************************************************************************)
(* Trees. A tree is a sequence of nodes, node 1 the seed node; a node has  *)
(* its parent (0 for the seed node) and, for a leaf, its taxon label.      *)
(***************************************************************************)
NoLabel == "-"

Nd(p, l) == [parent |-> p, label |-> l]

\* ((A,B),(C,D));
Shape_AB_CD_bifurcating ==
    << Nd(0, NoLabel), Nd(1, NoLabel), Nd(1, NoLabel),
       Nd(2, "A"), Nd(2, "B"), Nd(3, "C"), Nd(3, "D") >>

\* (A,B,(C,D));
Shape_AB_CD == << Nd(0, NoLabel), Nd(1, "A"), Nd(1, "B"), Nd(1, NoLabel), Nd(4, "C"), Nd(4, "D") >>

\* (A,C,(B,D));
Shape_AC_BD == << Nd(0, NoLabel), Nd(1, "A"), Nd(1, "C"), Nd(1, NoLabel), Nd(4, "B"), Nd(4, "D") >>

\* (A,B,(C,E)); a taxon the first tree of the first file does not hold
Shape_AB_CE == << Nd(0, NoLabel), Nd(1, "A"), Nd(1, "B"), Nd(1, NoLabel), Nd(4, "C"), Nd(4, "E") >>

\* (A,B,(C,F));
Shape_AB_CF == << Nd(0, NoLabel), Nd(1, "A"), Nd(1, "B"), Nd(1, NoLabel), Nd(4, "C"), Nd(4, "F") >>

\* ((t5,t6),((t4,(t2,t1)),t3)); the tree of CladeMaskTest
Shape_CladeMaskTest ==
    << Nd(0, NoLabel), Nd(1, NoLabel), Nd(2, "t5"), Nd(2, "t6"), Nd(1, NoLabel),
       Nd(5, NoLabel), Nd(6, "t4"), Nd(6, NoLabel), Nd(8, "t2"), Nd(8, "t1"), Nd(5, "t3") >>

Tree(rooted, w, nodes) == [is_rooted |-> rooted, weight |-> w, nodes |-> nodes]

\* a tree with branch lengths: the length of the edge above each node
TreeWithLengths(rooted, w, nodes, lengths) ==
    [is_rooted |-> rooted, weight |-> w, nodes |-> nodes, edge_lengths |-> lengths]

\* whether the tree statement gave branch lengths; without them edge.length is None
has_edge_lengths(tree) == "edge_lengths" \in DOMAIN tree

\* the parsed trees of the support files
RootedTree == Tree(TRUE, 1, Shape_AB_CD_bifurcating)
UnrootedTree == Tree(FALSE, 1, Shape_AB_CD)
ConflictingTree == Tree(FALSE, 2, Shape_AC_BD)
TreeWithE == Tree(FALSE, 1, Shape_AB_CE)
TreeWithF == Tree(FALSE, 1, Shape_AB_CF)

\* (((A:1,B:1):1,C:2):1,D:3); the clade of A and B is 1 old, that of A, B and C 2
\* the sequence of nodes, then the length of the edge above each node
Shape_ABC_D ==
    << Nd(0, NoLabel), Nd(1, NoLabel), Nd(2, NoLabel), Nd(3, "A"), Nd(3, "B"), Nd(2, "C"),
       Nd(1, "D") >>

YoungCladeTree == TreeWithLengths(TRUE, 1, Shape_ABC_D, << 0, 1, 1, 1, 1, 2, 3 >>)

\* ((A:9,B:9):1,(C:1,D:1):9); the clade of A and B is 9 old
OldCladeTree == TreeWithLengths(TRUE, 1, Shape_AB_CD_bifurcating, << 0, 1, 9, 9, 9, 1, 1 >>)

\* (A,C,(B,D)); as a target tree
UnrootedTarget == Tree(FALSE, 1, Shape_AC_BD)

\* the support files a run may be given: each a sequence of parsed trees
SupportFiles ==
    { << RootedTree >>,
      << UnrootedTree, ConflictingTree >>,
      << UnrootedTree, TreeWithE >>,
      << TreeWithF >> }

IsLeaf(tree, n) == tree.nodes[n].label # NoLabel

Children(tree, n) == { c \in DOMAIN tree.nodes : tree.nodes[c].parent = n }

RECURSIVE LeafLabelsFrom(_, _)
LeafLabelsFrom(tree, n) ==
    IF n > Len(tree.nodes) THEN << >>
    ELSE IF IsLeaf(tree, n) THEN << tree.nodes[n].label >> \o LeafLabelsFrom(tree, n + 1)
    ELSE LeafLabelsFrom(tree, n + 1)

\* the labels of the leaves in the order the parser meets them
LeafLabels(tree) == LeafLabelsFrom(tree, 1)

RECURSIVE split_bitmask_of_one_child(_, _, _)
\* an encoding in which an internal edge takes the bitmask of one child only
split_bitmask_of_one_child(tree, ns, n) ==
    IF tree.nodes[n].label # "-" THEN Pow2(IndexOf(ns, tree.nodes[n].label) - 1)
    ELSE split_bitmask_of_one_child(tree, ns,
            CHOOSE c \in DOMAIN tree.nodes :
                /\ tree.nodes[c].parent = n
                /\ \A d \in DOMAIN tree.nodes : tree.nodes[d].parent = n => c <= d)

RECURSIVE OrAll(_, _, _, _)
RECURSIVE split_bitmask(_, _, _)
\* encode_splits: a leaf edge holds the bit of its taxon, an internal edge
\* the bitwise OR of its child edges
split_bitmask(tree, ns, n) ==
    IF IsLeaf(tree, n) THEN taxon_bitmask(ns, tree.nodes[n].label)
    ELSE OrAll(tree, ns, Children(tree, n), 0)

OrAll(tree, ns, cs, acc) ==
    IF cs = {} THEN acc
    ELSE LET c == CHOOSE x \in cs : TRUE
         IN OrAll(tree, ns, cs \ {c}, BitOr(acc, split_bitmask(tree, ns, c)))

(***************************************************************************)
(* treesplit: triviality of a split, normalization of a split of an        *)
(* unrooted tree.                                                          *)
(***************************************************************************)
\* triviality without the case of all but one bit
is_trivial_split_without_all_but_one(split, mask) ==
    LET n == count_bits(BitAnd(split, mask))
    IN n = 0 \/ n = 1 \/ n = count_bits(mask)

\* triviality decided by all the bits of the split, also those outside the mask
is_trivial_split_unmasked(split, mask) ==
    LET n == count_bits(split)
        total == count_bits(mask)
    IN n = 0 \/ n = 1 \/ n = total - 1 \/ n = total

\* the table of IsTrivialTest: decided by the bits of the split inside the
\* taxa mask; none, one, all but one or all of them set is trivial
is_trivial_split(split, mask) ==
    LET n == count_bits(BitAnd(split, mask))
        total == count_bits(mask)
    IN n = 0 \/ n = 1 \/ n = total - 1 \/ n = total

\* a normalization that always takes the other half
normalize_to_other_half(split, mask) == BitXor(mask, split)

normalize(split, mask) == Min(split, BitXor(mask, split))

(***************************************************************************)
(* treesplit.SplitDistribution                                             *)
(***************************************************************************)
EmptyCounts == [s \in {} |-> 0]

SplitDistribution ==
    [ split_counts |-> EmptyCounts,
      total_trees_counted |-> 0,
      sum_of_tree_weights |-> 0,
      tree_rooting_types_counted |-> {},
      trees_counted_for_freqs |-> 0,
      ignore_node_ages |-> TRUE,
      split_edge_lengths |-> EmptyCounts,
      split_node_ages |-> EmptyCounts ]

CountOf(counts, s) == IF s \in DOMAIN counts THEN counts[s] ELSE 0

AddCount(counts, s, w) ==
    [k \in (DOMAIN counts) \cup {s} |-> IF k = s THEN CountOf(counts, k) + w ELSE counts[k]]

\* the key under which the edge above node n is counted
split_key(tree, ns, n) ==
    IF tree.is_rooted THEN split_bitmask(tree, ns, n)
    ELSE normalize(split_bitmask(tree, ns, n), all_taxa_bitmask(ns))

\* a count that leaves out the leaf edges
edge_is_counted_unless_leaf(tree, ns, n) ==
    /\ tree.nodes[n].label = "-"
    /\ n = 1 => tree.is_rooted /\ count_bits(split_bitmask(tree, ns, n)) < Len(ns) - 1

\* the root edge is counted only on a rooted tree whose root split is not trivial
edge_is_counted(tree, ns, n) ==
    IF n = 1
    THEN tree.is_rooted /\ ~is_trivial_split(split_bitmask(tree, ns, n), all_taxa_bitmask(ns))
    ELSE TRUE

\* the samples of a split with more of them added
AddSamples(samples, s, more) ==
    [k \in (DOMAIN samples) \cup {s} |->
        IF k \in DOMAIN samples
        THEN (IF k = s THEN samples[k] \o more ELSE samples[k])
        ELSE more]

RECURSIVE node_age(_, _)
\* the age of a node of an ultrametric tree: its distance from the leaves below it
node_age(tree, n) ==
    IF IsLeaf(tree, n) THEN 0
    ELSE LET c == CHOOSE x \in Children(tree, n) : \A y \in Children(tree, n) : x <= y
         IN node_age(tree, c) + tree.edge_lengths[c]

RECURSIVE collect_edge_lengths(_, _, _, _)
\* the length of every counted edge joins the samples of its split; an edge
\* without a length adds no sample
collect_edge_lengths(samples, tree, ns, n) ==
    IF n > Len(tree.nodes) THEN samples
    ELSE collect_edge_lengths(
            IF edge_is_counted(tree, ns, n)
            THEN AddSamples(samples, split_key(tree, ns, n),
                    IF has_edge_lengths(tree) THEN << tree.edge_lengths[n] >> ELSE << >>)
            ELSE samples,
            tree, ns, n + 1)

RECURSIVE collect_node_ages(_, _, _, _)
\* the age of the node below every counted edge joins the samples of its split
collect_node_ages(samples, tree, ns, n) ==
    IF n > Len(tree.nodes) THEN samples
    ELSE collect_node_ages(
            IF edge_is_counted(tree, ns, n)
            THEN AddSamples(samples, split_key(tree, ns, n),
                    IF has_edge_lengths(tree) THEN << node_age(tree, n) >> ELSE << >>)
            ELSE samples,
            tree, ns, n + 1)

RECURSIVE count_edges(_, _, _, _, _)
count_edges(counts, tree, ns, w, n) ==
    IF n > Len(tree.nodes) THEN counts
    ELSE count_edges(
            IF edge_is_counted(tree, ns, n)
            THEN AddCount(counts, split_key(tree, ns, n), w)
            ELSE counts,
            tree, ns, w, n + 1)

\* the weight a tree is counted with: its own when the parser stored
\* weights (--weighted-trees), 1 otherwise
tree_weight(tree, weighted) == IF weighted THEN tree.weight ELSE 1

\* a count that adds the weight of the tree to the number of trees counted
count_splits_on_tree_by_weight(sd, tree, ns, weighted) ==
    [ split_counts |-> count_edges(sd.split_counts, tree, ns, tree_weight(tree, weighted), 1),
      total_trees_counted |-> sd.total_trees_counted + tree_weight(tree, weighted),
      sum_of_tree_weights |-> sd.sum_of_tree_weights + tree_weight(tree, weighted),
      tree_rooting_types_counted |-> sd.tree_rooting_types_counted \cup {tree.is_rooted},
      trees_counted_for_freqs |-> sd.trees_counted_for_freqs,
      ignore_node_ages |-> sd.ignore_node_ages,
      split_edge_lengths |-> collect_edge_lengths(sd.split_edge_lengths, tree, ns, 1),
      split_node_ages |->
          IF sd.ignore_node_ages THEN sd.split_node_ages
          ELSE collect_node_ages(sd.split_node_ages, tree, ns, 1) ]

count_splits_on_tree(sd, tree, ns, weighted) ==
    [ split_counts |-> count_edges(sd.split_counts, tree, ns, tree_weight(tree, weighted), 1),
      total_trees_counted |-> sd.total_trees_counted + 1,
      sum_of_tree_weights |-> sd.sum_of_tree_weights + tree_weight(tree, weighted),
      tree_rooting_types_counted |-> sd.tree_rooting_types_counted \cup {tree.is_rooted},
      trees_counted_for_freqs |-> sd.trees_counted_for_freqs,
      ignore_node_ages |-> sd.ignore_node_ages,
      split_edge_lengths |-> collect_edge_lengths(sd.split_edge_lengths, tree, ns, 1),
      split_node_ages |->
          IF sd.ignore_node_ages THEN sd.split_node_ages
          ELSE collect_node_ages(sd.split_node_ages, tree, ns, 1) ]

\* calc_freqs: the frequencies are worked out from the counts, which is
\* noted as the number of trees they stand for
calc_freqs(sd) == [sd EXCEPT !.trees_counted_for_freqs = sd.total_trees_counted]

\* the sample lists of two distributions, those of the other one after its own
merged_samples(samples, other) ==
    [k \in (DOMAIN samples) \cup (DOMAIN other) |->
        (IF k \in DOMAIN samples THEN samples[k] ELSE << >>)
            \o (IF k \in DOMAIN other THEN other[k] ELSE << >>)]

\* SplitDistribution.update: the merge of another distribution into this one
update(sd, other) ==
    [ split_counts |->
        [k \in (DOMAIN sd.split_counts) \cup (DOMAIN other.split_counts) |->
            CountOf(sd.split_counts, k) + CountOf(other.split_counts, k)],
      total_trees_counted |-> sd.total_trees_counted + other.total_trees_counted,
      sum_of_tree_weights |-> sd.sum_of_tree_weights + other.sum_of_tree_weights,
      tree_rooting_types_counted |->
        sd.tree_rooting_types_counted \cup other.tree_rooting_types_counted,
      trees_counted_for_freqs |-> sd.trees_counted_for_freqs,
      ignore_node_ages |-> sd.ignore_node_ages,
      split_edge_lengths |-> merged_samples(sd.split_edge_lengths, other.split_edge_lengths),
      split_node_ages |-> merged_samples(sd.split_node_ages, other.split_node_ages) ]

RECURSIVE sum_of_counts(_, _, _, _)
sum_of_counts(sd, tree, ns, nodes) ==
    IF nodes = {} THEN 0
    ELSE LET n == CHOOSE x \in nodes : TRUE
         IN CountOf(sd.split_counts, split_key(tree, ns, n))
                + sum_of_counts(sd, tree, ns, nodes \ {n})

\* sum_of_split_support_on_tree: the sum of the frequencies of the splits
\* of the tree, those of the leaf edges only when include_external_splits;
\* given as the sum of the counts, to be divided by sum_of_tree_weights
sum_of_split_support_on_tree(sd, tree, ns, include_external_splits) ==
    sum_of_counts(sd, tree, ns,
        { n \in DOMAIN tree.nodes : include_external_splits \/ ~IsLeaf(tree, n) })

is_mixed_rootings_counted(sd) ==
    TRUE \in sd.tree_rooting_types_counted /\ FALSE \in sd.tree_rooting_types_counted

(***************************************************************************)
(* treesum.TopologyCounter: a topology is keyed by the set of the          *)
(* non-trivial splits of the tree.                                         *)
(***************************************************************************)
topology_key(tree, ns) ==
    { split_key(tree, ns, n) : n \in 2..Len(tree.nodes) }
        \ { k \in 0..all_taxa_bitmask(ns) : is_trivial_split(k, all_taxa_bitmask(ns)) }

\* the topology_hash_map of a TopologyCounter: the topologies in the order
\* in which they were first counted, each with its count
has_topology(map, key) == \E i \in DOMAIN map : map[i].key = key

add_topology(map, key, w) ==
    IF has_topology(map, key)
    THEN [i \in DOMAIN map |->
            IF map[i].key = key THEN [key |-> key, count |-> map[i].count + w] ELSE map[i]]
    ELSE Append(map, [key |-> key, count |-> w])

topology_count(map, tree, ns, weighted) ==
    add_topology(map, topology_key(tree, ns), tree_weight(tree, weighted))

RECURSIVE update_topology_hash_map(_, _)
\* the counts of the other map are added, a topology the map does not have
\* joins it after those it has
update_topology_hash_map(map, other) ==
    IF other = << >> THEN map
    ELSE update_topology_hash_map(add_topology(map, Head(other).key, Head(other).count),
                                  Tail(other))

(***************************************************************************)
(* Decimal and float arithmetic behind GREATER_THAN_50_PERCENT. Large      *)
(* numbers are sequences of limbs in base 10000, least significant first.  *)
(***************************************************************************)
\* decimal.getcontext().prec, the default context
DecimalPrecision == 28
\* the significand of a Python float (IEEE 754 double)
FloatMantissaBits == 53

RECURSIVE BigScaleCarry(_, _, _)
\* k * a + carry, for a small factor k
BigScaleCarry(k, a, carry) ==
    IF a = << >> THEN (IF carry = 0 THEN << >> ELSE << carry >>)
    ELSE << (k * Head(a) + carry) % 10000 >>
            \o BigScaleCarry(k, Tail(a), (k * Head(a) + carry) \div 10000)

BigTimes(k, a) == IF k = 0 THEN << >> ELSE BigScaleCarry(k, a, 0)

RECURSIVE BigPow2(_)
BigPow2(n) == IF n <= 12 THEN << Pow2(n) >> ELSE BigTimes(4096, BigPow2(n - 12))

RECURSIVE BigPow10(_)
BigPow10(n) ==
    IF n = 0 THEN << 1 >>
    ELSE IF n = 1 THEN << 10 >>
    ELSE IF n = 2 THEN << 100 >>
    ELSE IF n = 3 THEN << 1000 >>
    ELSE << 0 >> \o BigPow10(n - 4)

RECURSIVE BigLessFrom(_, _, _)
BigLessFrom(a, b, i) ==
    IF i = 0 THEN FALSE
    ELSE IF a[i] # b[i] THEN a[i] < b[i]
    ELSE BigLessFrom(a, b, i - 1)

\* a < b, both without leading zero limbs
BigLess(a, b) ==
    IF Len(a) # Len(b) THEN Len(a) < Len(b) ELSE BigLessFrom(a, b, Len(a))

\* float(d) for the decimal d = 0.5 + k * 10^-DecimalPrecision, as float steps
\* (2^-FloatMantissaBits each) above 0.5: round to nearest, ties to even. It is
\* 0 when d is no nearer to the next float than to 0.5, and 1 stands for the
\* next float or one beyond it
float_of_decimal_above_half(k) ==
    LET twice == BigTimes(k, BigPow2(FloatMantissaBits + 1))
        unit == BigPow10(DecimalPrecision)
    IN IF k = 0 \/ BigLess(twice, unit) \/ twice = unit THEN 0 ELSE 1

\* floats are kept as quarters plus float steps above: q/4 + u * 2^-53
Float(q, u) == [quarters |-> q, ulps |-> u]

Half == Float(2, 0)
One == Float(4, 0)

\* Decimal(0.5).next_plus() is 0.5 + 10^-DecimalPrecision
GREATER_THAN_50_PERCENT == Float(2, float_of_decimal_above_half(1))

FloatGreater(x, y) ==
    x.quarters > y.quarters \/ (x.quarters = y.quarters /\ x.ulps > y.ulps)

\* count / total >= x as floats (count and total small integers): the
\* quotient differs from a multiple of a quarter by far more than a float step
FrequencyAtLeast(count, total, x) ==
    IF total = 0 THEN ~FloatGreater(x, Float(0, 0))
    ELSE 4 * count > x.quarters * total
         \/ (4 * count = x.quarters * total /\ x.ulps <= 0)

\* the values of -f / --min-clade-freq of the model
MinCladeFreqs == { GREATER_THAN_50_PERCENT, Half, Float(2, 1), Float(3, 0), One, Float(5, 0) }

(***************************************************************************)
(* treesum.TreeSummarizer.tree_from_splits: the greedy majority-rule       *)
(* construction. The tree is kept with its taxa and the splits             *)
(* incorporated.                                                           *)
(***************************************************************************)
non_trivial_splits(sd, ns) ==
    { k \in DOMAIN sd.split_counts : ~is_trivial_split(k, all_taxa_bitmask(ns)) }

\* one split is inside the other, or they share no taxon
is_compatible(a, b) == BitAnd(a, b) \in {0, a, b}

\* rank: higher frequency first, ties by ascending bitmask
first_ranked(splits, sd) ==
    CHOOSE k \in splits :
        \A j \in splits :
            \/ sd.split_counts[k] > sd.split_counts[j]
            \/ (sd.split_counts[k] = sd.split_counts[j] /\ k <= j)

RECURSIVE add_without_compatibility_test(_, _, _)
\* every split that meets the threshold is taken
add_without_compatibility_test(to_try, sd, added) == to_try \cup added

RECURSIVE add_compatible(_, _, _)
add_compatible(to_try, sd, added) ==
    IF to_try = {} THEN added
    ELSE LET k == first_ranked(to_try, sd)
         IN add_compatible(to_try \ {k}, sd,
                IF \A j \in added : is_compatible(k, j) THEN added \cup {k} ELSE added)

\* the star topology: a single root, one child per taxon
star_topology(ns) == << Nd(0, NoLabel) >> \o [i \in 1..Len(ns) |-> Nd(1, ns[i])]

\* a new internal node that groups the taxa of the split: it is attached
\* below the smallest group that holds them all, and the children of that
\* group that lie inside the split are re-parented to it
insert_split(nodes, ns, k) ==
    LET tree == [is_rooted |-> TRUE, weight |-> 1, nodes |-> nodes]
        taxa == BitAnd(k, all_taxa_bitmask(ns))
        group(n) == split_bitmask(tree, ns, n)
        holders == { n \in DOMAIN nodes :
                        ~IsLeaf(tree, n) /\ BitAnd(group(n), taxa) = taxa }
        attach == CHOOSE n \in holders :
                        \A m \in holders : count_bits(group(n)) <= count_bits(group(m))
        moved == { c \in Children(tree, attach) : BitAnd(group(c), taxa) = group(c) }
    IN Append([n \in DOMAIN nodes |->
                    IF n \in moved THEN Nd(Len(nodes) + 1, nodes[n].label) ELSE nodes[n]],
              Nd(attach, NoLabel))

RECURSIVE insert_splits(_, _, _, _)
insert_splits(nodes, ns, splits, sd) ==
    IF splits = {} THEN nodes
    ELSE LET k == first_ranked(splits, sd)
         IN insert_splits(insert_split(nodes, ns, k), ns, splits \ {k}, sd)

\* the splits that meet the threshold, and of them those incorporated
splits_to_incorporate(sd, ns, f) ==
    add_compatible(
        { k \in non_trivial_splits(sd, ns) :
            FrequencyAtLeast(sd.split_counts[k], sd.sum_of_tree_weights, f) },
        sd, {})

tree_from_splits(sd, ns, f) ==
    [ taxa |-> ns,
      splits |-> splits_to_incorporate(sd, ns, f),
      is_rooted |-> sd.tree_rooting_types_counted = {TRUE},
      weight |-> 1,
      nodes |-> insert_splits(star_topology(ns), ns, splits_to_incorporate(sd, ns, f), sd) ]

(***************************************************************************)
(* treesum.TreeSummarizer: support, edge lengths and node ages set on the  *)
(* nodes of an output tree. A value is a fraction << numerator,            *)
(* denominator >> with a positive denominator, or Unset.                   *)
(***************************************************************************)
Unset == << >>

IsSet(x) == x # Unset

\* x >= y for two values that are set
AtLeast(x, y) == x[1] * y[2] >= y[1] * x[2]

\* x - y for two values that are set
Minus(x, y) == << x[1] * y[2] - y[1] * x[2], x[2] * y[2] >>

\* the frequency without the test for an empty distribution
frequency_without_zero_test(sd, split) ==
    << CountOf(sd.split_counts, split), sd.sum_of_tree_weights >>

\* frequency of a split: count / total weight; 0.0 when nothing was counted
\* or the split was never observed
frequency(sd, split) ==
    IF sd.sum_of_tree_weights > 0
    THEN << CountOf(sd.split_counts, split), sd.sum_of_tree_weights >>
    ELSE << 0, 1 >>

RECURSIVE SumOf(_)
SumOf(samples) == IF samples = << >> THEN 0 ELSE Head(samples) + SumOf(Tail(samples))

RECURSIVE Sorted(_)
Sorted(samples) ==
    IF samples = << >> THEN << >>
    ELSE LET i == CHOOSE x \in DOMAIN samples : \A y \in DOMAIN samples : samples[x] <= samples[y]
         IN << samples[i] >>
                \o Sorted([k \in 1..(Len(samples) - 1) |->
                              IF k < i THEN samples[k] ELSE samples[k + 1]])

\* statistics.mean_and_sample_variance(x)[0]
mean(samples) == << SumOf(samples), Len(samples) >>

\* statistics.median
median(samples) ==
    LET sorted == Sorted(samples)
        n == Len(samples)
    IN IF n % 2 = 1 THEN << sorted[(n + 1) \div 2], 1 >>
       ELSE << sorted[n \div 2] + sorted[n \div 2 + 1], 2 >>

\* summarization_func: by the name of the edge summarization
summarization_func(edge_summarization, samples) ==
    IF edge_summarization \in {"mean-length", "mean-age"} THEN mean(samples) ELSE median(samples)

\* the summary of the samples of a split; none for a split without samples
summary_of(samples, split, edge_summarization) ==
    IF split \in DOMAIN samples /\ samples[split] # << >>
    THEN summarization_func(edge_summarization, samples[split])
    ELSE Unset

\* map_split_support_to_tree: every edge gets the frequency of its split
map_split_support_to_tree(tree, sd, ns) ==
    [n \in DOMAIN tree.nodes |-> frequency(sd, split_key(tree, ns, n))]

\* the summarized length of an edge when a split without samples counts as length 0
summarize_edge_lengths_unobserved_as_zero(tree, sd, ns, edge_summarization) ==
    [n \in DOMAIN tree.nodes |->
        IF IsSet(summary_of(sd.split_edge_lengths, split_key(tree, ns, n), edge_summarization))
        THEN summary_of(sd.split_edge_lengths, split_key(tree, ns, n), edge_summarization)
        ELSE << 0, 1 >>]

\* summarize_edge_lengths_on_tree
summarize_edge_lengths_on_tree(tree, sd, ns, edge_summarization) ==
    [n \in DOMAIN tree.nodes |->
        summary_of(sd.split_edge_lengths, split_key(tree, ns, n), edge_summarization)]

\* the oldest of a set of ages that are set
Oldest(ages) == CHOOSE x \in ages : \A y \in ages : AtLeast(x, y)

\* a pass of one level only: a parent is made as old as the summaries of its children
collapsed_age_one_level(tree, ages, n) ==
    LET known == { ages[m] : m \in { c \in Children(tree, n) \cup {n} : IsSet(ages[c]) } }
    IN IF known = {} THEN Unset ELSE Oldest(known)

RECURSIVE collapsed_age(_, _, _)
\* the bottom-up pass of collapse_negative_edges: a parent is made at least
\* as old as the oldest of its children, these taken after their own pass
collapsed_age(tree, ages, n) ==
    LET below == { collapsed_age(tree, ages, c) : c \in Children(tree, n) }
        known == { a \in below \cup {ages[n]} : IsSet(a) }
    IN IF known = {} THEN Unset ELSE Oldest(known)

\* summarize_node_ages_on_tree: the ages
summarize_node_ages_on_tree(tree, sd, ns, edge_summarization, collapse_negative_edges) ==
    LET ages == [n \in DOMAIN tree.nodes |->
                    summary_of(sd.split_node_ages, split_key(tree, ns, n), edge_summarization)]
    IN IF collapse_negative_edges
       THEN [n \in DOMAIN tree.nodes |-> collapsed_age(tree, ages, n)]
       ELSE ages

\* set_edge_lengths=True: the length of an edge is the age of the node above
\* it less the age of the node below it
edge_lengths_from_node_ages(tree, ages) ==
    [n \in DOMAIN tree.nodes |->
        IF tree.nodes[n].parent # 0 /\ IsSet(ages[n]) /\ IsSet(ages[tree.nodes[n].parent])
        THEN Minus(ages[tree.nodes[n].parent], ages[n])
        ELSE Unset]

\* the lengths the tree came with
own_edge_lengths(tree) ==
    [n \in DOMAIN tree.nodes |->
        IF has_edge_lengths(tree) THEN << tree.edge_lengths[n], 1 >> ELSE Unset]

\* the edge summarization when --edges was not given
edge_summarization_of(o, has_target) ==
    IF o.edge_summarization # "None" THEN o.edge_summarization
    ELSE IF has_target THEN "keep"
    ELSE IF o.ultrametric_trees THEN "median-age"
    ELSE "mean-length"

\* what main_cli has the summarizer set on an output tree: the support, and
\* the lengths and ages by the edge summarization o.edge_summarization
summarize(tree, sd, ns, o) ==
    LET es == o.edge_summarization
        support == map_split_support_to_tree(tree, sd, ns)
        ages == IF es \in {"mean-age", "median-age"}
                THEN summarize_node_ages_on_tree(tree, sd, ns, es, o.collapse_negative_edges)
                ELSE [n \in DOMAIN tree.nodes |-> Unset]
        lengths == IF es = "unweighted" THEN [n \in DOMAIN tree.nodes |-> Unset]
                   ELSE IF es = "keep" THEN own_edge_lengths(tree)
                   ELSE IF es \in {"mean-age", "median-age"}
                   THEN edge_lengths_from_node_ages(tree, ages)
                   ELSE summarize_edge_lengths_on_tree(tree, sd, ns, es)
    IN [n \in DOMAIN tree.nodes |->
            [support |-> support[n], length |-> lengths[n], age |-> ages[n]]]

(***************************************************************************)
(* The state of a run of SumTrees.                                         *)
(***************************************************************************)
VARIABLES
    support_filepaths,      \* the support files, each the sequence of its trees
    tree_offset,            \* opts.burnin
    multiprocess,           \* opts.multiprocess; 0 when the option is not given
    weighted_trees,         \* opts.weighted_trees
    calc_tree_probs,        \* opts.calc_tree_probs (--trprobs given)
    pc,                     \* where main_cli is
    exit_status,            \* -1 while running
    tidx,                   \* serial mode: trees yielded so far
    taxon_namespace,        \* the namespace of the master distribution
    split_distribution,     \* master_split_distribution
    topology_counter,       \* master_topology_counter's topology_hash_map
    sct,                    \* the SplitCountingWorker processes, by process_idx + 1
    work_queue,
    result_split_dist_queue,
    result_topology_hash_map_queue,
    result_count,
    min_clade_freq,         \* opts.min_clade_freq
    min_freq,
    tt_trees,
    written,                \* the outputs written so far
    warnings,               \* the warnings main_cli has sent to the messenger
    calc,                   \* the call of a treesplit function under test, and its result
    kills,                  \* kill requests delivered so far
    counted,                \* per tree of the input: how often its splits were counted
    argv,                   \* the command line, as far as the options below go
    opts,                   \* the option values: parse_args, then main_cli's own changes
    rooting_interpretation,
    target_tree_filepath,   \* << >> for None, else the target file: the sequence of its trees
    annotations,            \* per tree of tt_trees and node: what the summarizer has set
    messenger,              \* the ConsoleMessenger: its messaging_level and silent
    messenger_lock          \* multiprocessing.Lock: 0 when free, else the worker that holds it

vars ==
    << support_filepaths, tree_offset, multiprocess, weighted_trees, calc_tree_probs,
       pc, exit_status, tidx, taxon_namespace, split_distribution, topology_counter,
       sct, work_queue, result_split_dist_queue, result_topology_hash_map_queue,
       result_count, min_clade_freq, min_freq, tt_trees, written, warnings, calc,
       kills, counted, argv, opts, rooting_interpretation, target_tree_filepath,
       annotations, messenger, messenger_lock >>

given == << support_filepaths, tree_offset, multiprocess, weighted_trees, calc_tree_probs,
           calc, argv, rooting_interpretation, target_tree_filepath, messenger,
           messenger_lock >>
options == << given, opts >>
master == << taxon_namespace, split_distribution, topology_counter >>
parallel == << sct, work_queue, result_split_dist_queue, result_topology_hash_map_queue,
               result_count, kills >>
target == << min_clade_freq, min_freq, tt_trees, written, warnings, annotations >>

\* no treesplit function is under test during a run of SumTrees
NoCall == [op |-> "none"]

\* the messaging levels in their order
MESSAGING_LEVEL == [INFO |-> 1, WARNING |-> 2, ERROR |-> 3]

\* the messenger of main_cli: --quiet raises its level to that of errors
ConsoleMessenger(quiet) ==
    [ messaging_level |-> IF quiet THEN MESSAGING_LEVEL.ERROR ELSE MESSAGING_LEVEL.INFO,
      silent |-> FALSE ]

(***************************************************************************)
(* The options of main_cli that decide the rooting of the trees and the    *)
(* summarization of edge lengths and node ages.                            *)
(***************************************************************************)
edge_summarization_choices ==
    {"mean-length", "median-length", "mean-age", "median-age", "keep", "unweighted"}

\* --rooted and --unrooted in the order they were given
RootingFlags ==
    { << >>, << "--rooted" >>, << "--unrooted" >>,
      << "--rooted", "--unrooted" >>, << "--unrooted", "--rooted" >> }

CommandLines ==
    [ rooting : RootingFlags,
      ultrametric : BOOLEAN,
      no_node_ages : BOOLEAN,
      edges : {"None"} \cup edge_summarization_choices,
      collapse_negative_edges : BOOLEAN,
      root_target_at_midpoint : BOOLEAN ]

\* a command line with none of these options
NoOptions ==
    [ rooting |-> << >>, ultrametric |-> FALSE, no_node_ages |-> FALSE, edges |-> "None",
      collapse_negative_edges |-> FALSE, root_target_at_midpoint |-> FALSE ]

\* parser.parse_args: --rooted stores True and --unrooted False in
\* rooted_trees, the later one wins; --no-node-ages stores False in
\* calc_node_ages, which no option sets to True
parse_args(a) ==
    [ rooted_trees |->
        IF a.rooting = << >> THEN "None"
        ELSE IF a.rooting[Len(a.rooting)] = "--rooted" THEN "True" ELSE "False",
      ultrametric_trees |-> a.ultrametric,
      calc_node_ages |-> IF a.no_node_ages THEN "False" ELSE "None",
      edge_summarization |-> a.edges,
      collapse_negative_edges |-> a.collapse_negative_edges,
      root_target_at_midpoint |-> a.root_target_at_midpoint ]

\* "edge lengths": what --edges and --ultrametric imply for the other options
edge_lengths_options(o) ==
    IF o.edge_summarization = "mean-age" \/ o.edge_summarization = "median-age"
    THEN [o EXCEPT !.ultrametric_trees = TRUE,
                   !.rooted_trees = "True",
                   !.calc_node_ages = IF @ = "None" THEN "True" ELSE @]
    ELSE IF o.ultrametric_trees
    THEN [o EXCEPT !.rooted_trees = "True",
                   !.calc_node_ages = IF @ = "None" THEN "True" ELSE @]
    ELSE IF o.calc_node_ages = "True"
    THEN [o EXCEPT !.ultrametric_trees = TRUE, !.rooted_trees = "True"]
    ELSE [o EXCEPT !.calc_node_ages = "False"]

\* the choice without its first case
rooting_interpretation_never_rooted(o) ==
    IF o.rooted_trees = "False" THEN "force-unrooted" ELSE "default-unrooted"

\* the rooting interpretation handed to the parser
rooting_interpretation_of(o) ==
    IF o.rooted_trees = "True" THEN "force-rooted"
    ELSE IF o.rooted_trees = "False" THEN "force-unrooted"
    ELSE "default-unrooted"

\* ignore_node_ages=not opts.calc_node_ages
ignore_node_ages_of(o) == o.calc_node_ages # "True"

\* dendropy.Tree.yield_from_files(..., rooting=rooting_interpretation): the
\* rooting of a parsed tree is the one forced, else the one of its statement
yield_from_files(tree, rooting) ==
    [tree EXCEPT !.is_rooted =
        IF rooting = "force-rooted" THEN TRUE
        ELSE IF rooting = "force-unrooted" THEN FALSE
        ELSE @]

\* main_cli from the parsing of the command line to the start of the counting
main_cli_options ==
    /\ pc = "options"
    /\ opts' = edge_lengths_options(opts)
    /\ rooting_interpretation' = rooting_interpretation_of(edge_lengths_options(opts))
    /\ pc' = "main"
    /\ UNCHANGED << support_filepaths, tree_offset, multiprocess, weighted_trees,
                    calc_tree_probs, calc, argv, target_tree_filepath, exit_status, tidx,
                    master, parallel, target, counted, messenger, messenger_lock >>

TreePositions(files) ==
    UNION { { << f, i >> : i \in 1..Len(files[f]) } : f \in 1..Len(files) }

FileLists ==
    UNION { [1..n -> SupportFiles] : n \in 1..MaxFiles }

Init ==
    /\ support_filepaths \in FileLists
    /\ tree_offset \in 0..MaxBurnin
    /\ multiprocess \in 0..MaxProcesses
    /\ weighted_trees \in BOOLEAN
    /\ calc_tree_probs \in BOOLEAN
    /\ pc = "main"
    /\ exit_status = -1
    /\ tidx = 0
    /\ taxon_namespace = << >>
    /\ split_distribution = SplitDistribution
    /\ topology_counter = EmptyCounts
    /\ sct = << >>
    /\ work_queue = << >>
    /\ result_split_dist_queue = << >>
    /\ result_topology_hash_map_queue = << >>
    /\ result_count = 0
    /\ min_clade_freq = GREATER_THAN_50_PERCENT
    /\ min_freq = GREATER_THAN_50_PERCENT
    /\ tt_trees = << >>
    /\ written = {}
    /\ warnings = {}
    /\ calc = NoCall
    /\ kills = 0
    /\ counted = [fp \in TreePositions(support_filepaths) |-> 0]
    /\ argv = NoOptions
    /\ opts = edge_lengths_options(parse_args(NoOptions))
    /\ rooting_interpretation = "default-unrooted"
    /\ target_tree_filepath = << >>
    /\ annotations = << >>
    /\ messenger = ConsoleMessenger(FALSE)
    /\ messenger_lock = 0

(***************************************************************************)
(* Serial mode: process_sources_serial.                                    *)
(***************************************************************************)
RECURSIVE TotalTrees(_)
TotalTrees(files) == IF files = << >> THEN 0 ELSE Len(Head(files)) + TotalTrees(Tail(files))

RECURSIVE Locate(_, _, _)
\* the file and the position in it of the tree the yielder gives at index t
Locate(files, t, f) ==
    IF t < Len(files[f]) THEN << f, t + 1 >> ELSE Locate(files, t - Len(files[f]), f + 1)

\* main_cli chooses the mode
runs_parallel == Len(support_filepaths) > 1 /\ multiprocess >= 1

process_sources_serial_start ==
    /\ pc = "main"
    /\ ~runs_parallel
    /\ pc' = "serial"
    /\ taxon_namespace' = << >>
    /\ split_distribution' =
            [SplitDistribution EXCEPT !.ignore_node_ages = ignore_node_ages_of(opts)]
    /\ topology_counter' = EmptyCounts
    /\ tidx' = 0
    /\ UNCHANGED << options, exit_status, parallel, target, counted >>

\* the test of the serial loop if it asked for more than two rooting types
serial_rootings_exceed_two(sd) == Cardinality(sd.tree_rooting_types_counted) > 2

\* the test of the serial loop after each count
serial_rootings_are_mixed(sd) == Cardinality(sd.tree_rooting_types_counted) > 1

\* whether the serial loop counts the tree at index t of the whole input
serial_counts_tree(t) == t >= tree_offset

\* one pass of the loop over the tree yielder
process_sources_serial_tree ==
    /\ pc = "serial"
    /\ tidx < TotalTrees(support_filepaths)
    /\ LET fp == Locate(support_filepaths, tidx, 1)
           tree == yield_from_files(support_filepaths[fp[1]][fp[2]], rooting_interpretation)
           ns == RegisterAll(taxon_namespace, LeafLabels(tree))
           sd == count_splits_on_tree(split_distribution, tree, ns, weighted_trees)
       IN /\ taxon_namespace' = ns
          /\ tidx' = tidx + 1
          /\ IF serial_counts_tree(tidx)
             THEN /\ split_distribution' = sd
                  /\ counted' = [counted EXCEPT ![fp] = @ + 1]
                  /\ IF serial_rootings_are_mixed(sd)
                     THEN \* mixed_tree_rootings_in_source_error: sys.exit(1)
                          /\ pc' = "exit"
                          /\ exit_status' = 1
                          /\ UNCHANGED topology_counter
                     ELSE /\ topology_counter' = topology_count(topology_counter, tree, ns, weighted_trees)
                          /\ UNCHANGED << pc, exit_status >>
             ELSE UNCHANGED << split_distribution, counted, topology_counter, pc, exit_status >>
    /\ UNCHANGED << options, parallel, target >>

process_sources_serial_return ==
    /\ pc = "serial"
    /\ tidx = TotalTrees(support_filepaths)
    /\ pc' = "report"
    /\ UNCHANGED << options, exit_status, tidx, master, parallel, target, counted >>

(***************************************************************************)
(* Parallel mode: process_sources_parallel and SplitCountingWorker.        *)
(***************************************************************************)
\* discover_taxa: the namespace of the first tree of the file
discover_taxa(treefile) == RegisterAll(<< >>, LeafLabels(treefile[1]))

\* SplitCountingWorker.__init__: a namespace of its own from the labels
SplitCountingWorker(taxon_labels) ==
    [ pc |-> "take",
      source |-> 0,
      tidx |-> 0,
      taxon_namespace |-> taxon_labels,
      split_distribution |->
          [SplitDistribution EXCEPT !.ignore_node_ages = ignore_node_ages_of(opts)],
      topology_hash_map |-> EmptyCounts,
      kill_received |-> FALSE,
      sending |-> "no",            \* where it is in send_message, when it is there
      sent |-> << >>,              \* the messages it has handed to send_message
      received |-> << >>,          \* the tasks it reported as received
      published |-> 0,             \* results it has put on the result queues
      killed_at |-> "none",        \* where it was when the kill request came
      tasks_at_kill |-> 0,         \* tasks it had received when the kill request came
      trees_after_kill |-> 0 ]     \* trees it consumed after the kill request

process_sources_parallel_start ==
    /\ pc = "main"
    /\ runs_parallel
    /\ taxon_namespace' = discover_taxa(support_filepaths[1])
    /\ work_queue' = [i \in 1..Len(support_filepaths) |-> i]
    /\ result_split_dist_queue' = << >>
    /\ result_topology_hash_map_queue' = << >>
    /\ sct' = [idx \in 1..multiprocess |-> SplitCountingWorker(discover_taxa(support_filepaths[1]))]
    /\ result_count' = 0
    /\ split_distribution' =
            [SplitDistribution EXCEPT !.ignore_node_ages = ignore_node_ages_of(opts)]
    /\ topology_counter' = EmptyCounts
    /\ pc' = "collate"
    /\ UNCHANGED << options, exit_status, tidx, target, kills, counted >>

Workers == DOMAIN sct

\* whether the worker counts the tree at index t of its current file
worker_counts_tree(t) == t >= tree_offset

\* the work queue after a read that leaves the task on it
queue_after_peek(q) == q

\* the work queue after get_nowait() has taken its first task
queue_after_get_nowait(q) == Tail(q)

\* the head of run's loop: the kill test, then work_queue.get_nowait()
worker_take(w) ==
    /\ sct[w].pc = "take"
    /\ IF sct[w].kill_received
       THEN /\ sct' = [sct EXCEPT ![w].pc = "finish"]
            /\ UNCHANGED work_queue
       ELSE IF work_queue = << >>
       THEN \* queue.Empty: break
            /\ sct' = [sct EXCEPT ![w].pc = "finish"]
            /\ UNCHANGED work_queue
       ELSE /\ work_queue' = queue_after_get_nowait(work_queue)
            /\ sct' = [sct EXCEPT ![w].pc = "tree",
                                  ![w].source = Head(work_queue),
                                  ![w].tidx = 0,
                                  ![w].received = Append(@, Head(work_queue))]
    /\ UNCHANGED << options, pc, exit_status, tidx, master, result_split_dist_queue,
                    result_topology_hash_map_queue, result_count, target, kills, counted >>

\* the pass over a tree without the kill test that ends it
worker_after_tree_without_kill_test(wk, more) == IF more THEN "tree" ELSE "eof"

\* what the worker does once it has the tree at index t of its source; the
\* kill test that ends the pass is in worker_tree
worker_after_tree(wk, more) ==
    IF wk.kill_received THEN "finish" ELSE IF more THEN "tree" ELSE "eof"

\* one pass of the loop over the trees of the source, up to its kill test
worker_tree(w) ==
    /\ sct[w].pc = "tree"
    /\ LET wk == sct[w]
           file == support_filepaths[wk.source]
           tree == yield_from_files(file[wk.tidx + 1], rooting_interpretation)
           ns == RegisterAll(wk.taxon_namespace, LeafLabels(tree))
           counts == worker_counts_tree(wk.tidx)
       IN /\ sct' = [sct EXCEPT
                ![w].taxon_namespace = ns,
                ![w].tidx = wk.tidx + 1,
                ![w].split_distribution =
                    IF counts THEN count_splits_on_tree(@, tree, ns, weighted_trees) ELSE @,
                ![w].topology_hash_map =
                    IF counts /\ calc_tree_probs
                    THEN topology_count(@, tree, ns, weighted_trees) ELSE @,
                ![w].trees_after_kill = IF wk.kill_received THEN @ + 1 ELSE @,
                ![w].pc = worker_after_tree(wk, wk.tidx + 1 < Len(file)) ]
          /\ counted' = IF counts
                        THEN [counted EXCEPT ![<< wk.source, wk.tidx + 1 >>] = @ + 1]
                        ELSE counted
    /\ UNCHANGED << options, pc, exit_status, tidx, master, work_queue, result_split_dist_queue,
                    result_topology_hash_map_queue, result_count, target, kills >>

\* after the last tree of the source: the kill test, "Completed task"
worker_end_of_source(w) ==
    /\ sct[w].pc = "eof"
    /\ sct' = [sct EXCEPT ![w].pc = IF sct[w].kill_received THEN "finish" ELSE "take"]
    /\ UNCHANGED << options, pc, exit_status, tidx, master, work_queue, result_split_dist_queue,
                    result_topology_hash_map_queue, result_count, target, kills, counted >>

\* a worker that never puts its results
worker_publishes_never(wk) == FALSE

\* whether the worker publishes its results when it leaves the loop
worker_publishes(wk) == ~wk.kill_received

\* after the loop: the warning of a killed worker, or the first put
worker_finish(w) ==
    /\ sct[w].pc = "finish"
    /\ IF worker_publishes(sct[w])
       THEN /\ result_split_dist_queue' = Append(result_split_dist_queue, sct[w].split_distribution)
            /\ sct' = [sct EXCEPT ![w].pc = "put_topology", ![w].published = 1]
       ELSE /\ sct' = [sct EXCEPT ![w].pc = "exited"]
            /\ UNCHANGED result_split_dist_queue
    /\ UNCHANGED << options, pc, exit_status, tidx, master, work_queue,
                    result_topology_hash_map_queue, result_count, target, kills, counted >>

\* the second put
worker_put_topology(w) ==
    /\ sct[w].pc = "put_topology"
    /\ result_topology_hash_map_queue' =
            Append(result_topology_hash_map_queue, sct[w].topology_hash_map)
    /\ sct' = [sct EXCEPT ![w].pc = "exited", ![w].published = 2]
    /\ UNCHANGED << options, pc, exit_status, tidx, master, work_queue, result_split_dist_queue,
                    result_count, target, kills, counted >>

\* a kill request reaches a running worker: kill_received becomes True
kill(w) ==
    /\ pc \in {"collate", "collate_topology"}
    /\ kills < MaxKills
    /\ sct[w].pc # "exited"
    /\ ~sct[w].kill_received
    /\ sct' = [sct EXCEPT ![w].kill_received = TRUE, ![w].killed_at = sct[w].pc,
                          ![w].tasks_at_kill = Len(sct[w].received)]
    /\ kills' = kills + 1
    /\ UNCHANGED << options, pc, exit_status, tidx, master, work_queue, result_split_dist_queue,
                    result_topology_hash_map_queue, result_count, target, counted >>

\* the collating loop: result_split_dist_queue.get() blocks while the queue is empty
collate_split_distribution ==
    /\ pc = "collate"
    /\ result_count < multiprocess
    /\ result_split_dist_queue # << >>
    /\ split_distribution' = update(split_distribution, Head(result_split_dist_queue))
    /\ result_split_dist_queue' = Tail(result_split_dist_queue)
    /\ pc' = "collate_topology"
    /\ UNCHANGED << options, exit_status, tidx, taxon_namespace, topology_counter, sct, work_queue,
                    result_topology_hash_map_queue, result_count, target, kills, counted >>

collate_topology_hash_map ==
    /\ pc = "collate_topology"
    /\ result_topology_hash_map_queue # << >>
    /\ topology_counter' =
            update_topology_hash_map(topology_counter, Head(result_topology_hash_map_queue))
    /\ result_topology_hash_map_queue' = Tail(result_topology_hash_map_queue)
    /\ result_count' = result_count + 1
    /\ pc' = "collate"
    /\ UNCHANGED << options, exit_status, tidx, taxon_namespace, split_distribution, sct,
                    work_queue, result_split_dist_queue, target, kills, counted >>

process_sources_parallel_return ==
    /\ pc = "collate"
    /\ result_count >= multiprocess
    /\ pc' = "report"
    /\ UNCHANGED << options, exit_status, tidx, master, parallel, target, counted >>

(***************************************************************************)
(* main_cli after the counting: the report, the consensus tree, the        *)
(* results.                                                                *)
(***************************************************************************)
\* the post-counting report without its rooting test
report_without_rooting_test(sd) == FALSE

\* the rooting test of the post-counting report
report_finds_mixed_rootings(sd) == is_mixed_rootings_counted(sd)

\* "Compose post-counting report": mixed rootings end the run
post_counting_report ==
    /\ pc = "report"
    /\ IF report_finds_mixed_rootings(split_distribution)
       THEN /\ pc' = "exit"
            /\ exit_status' = 1
       ELSE /\ pc' = "target"
            /\ UNCHANGED exit_status
    /\ UNCHANGED << options, tidx, master, parallel, target, counted >>

\* no reset: the requested value is handed on as it is
min_clade_freq_as_requested(f) == f

\* the reset to 1.0 with its comparison the wrong way round
clamp_min_clade_freq_below_one(f) == IF FloatGreater(One, f) THEN One ELSE f

\* the threshold handed to tree_from_splits: above 1.0 is reset to 1.0
clamp_min_clade_freq(f) == IF FloatGreater(f, One) THEN One ELSE f

\* line 852 tests the method is_all_counted_trees_rooted itself, not what
\* it returns when called: a bound method is true
is_all_counted_trees_rooted_uncalled(sd) == TRUE

\* SplitDistribution.is_all_counted_trees_rooted()
is_all_counted_trees_rooted(sd) == sd.tree_rooting_types_counted = {TRUE}

\* the rooting test of a target tree: whether it ends the run
target_tree_is_refused(sd, tree) ==
    IF is_all_counted_trees_rooted_uncalled(sd) THEN ~tree.is_rooted ELSE tree.is_rooted

RECURSIVE mapped_target_trees(_, _)
\* the trees of the target file up to the first one refused
mapped_target_trees(sd, trees) ==
    IF trees = << >> \/ target_tree_is_refused(sd, Head(trees)) THEN << >>
    ELSE << Head(trees) >> \o mapped_target_trees(sd, Tail(trees))

\* lines 902-947 for the trees of tt_trees
summarized_trees(trees, sd, ns, o) ==
    [i \in DOMAIN trees |-> summarize(trees[i], sd, ns, o)]

\* "Mapping support to target tree ...", then the summarizing of node ages
\* and lengths
map_support_to_target_trees ==
    /\ pc = "target"
    /\ target_tree_filepath # << >>
    /\ LET file == [i \in DOMAIN target_tree_filepath[1] |->
                        yield_from_files(target_tree_filepath[1][i], rooting_interpretation)]
           mapped == mapped_target_trees(split_distribution, file)
           es == [opts EXCEPT !.edge_summarization = edge_summarization_of(opts, TRUE)]
       IN IF opts.root_target_at_midpoint
          THEN \* whatever tree.root_at_midpoint(splits=True) makes of a tree, the
               \* run ends: at the rooting test, or after the loop where
               \* opts.outgroup is read, an attribute no option defines
               /\ tt_trees' \in {<< >>, file}
               /\ pc' = "exit"
               /\ exit_status' = 1
               /\ UNCHANGED << opts, annotations >>
          ELSE IF Len(mapped) < Len(file)
          THEN \* messenger.error, sys.exit(1)
               /\ tt_trees' = mapped
               /\ pc' = "exit"
               /\ exit_status' = 1
               /\ UNCHANGED << opts, annotations >>
          ELSE /\ tt_trees' = mapped
               /\ opts' = es
               /\ annotations' = summarized_trees(mapped, split_distribution, taxon_namespace, es)
               /\ pc' = "write"
               /\ UNCHANGED exit_status
    /\ split_distribution' = IF tt_trees' = << >> THEN split_distribution
                             ELSE calc_freqs(split_distribution)
    /\ UNCHANGED << given, tidx, taxon_namespace, topology_counter, parallel,
                    min_clade_freq, min_freq, written, warnings, counted >>

\* "Constructing clade consensus tree ...", then the summarizing of node ages
\* and lengths
construct_consensus_tree ==
    /\ pc = "target"
    /\ target_tree_filepath = << >>
    /\ \E f \in MinCladeFreqs :
        /\ min_clade_freq' = f
        /\ min_freq' = clamp_min_clade_freq(f)
        /\ tt_trees' = << tree_from_splits(split_distribution, taxon_namespace,
                                            clamp_min_clade_freq(f)) >>
        /\ split_distribution' = calc_freqs(split_distribution)
        /\ warnings' = IF FloatGreater(f, One)
                       THEN warnings \cup {"Maximum frequency threshold for clade inclusion is 1.0: reset to 1.0."}
                       ELSE warnings
    /\ IF opts.root_target_at_midpoint
       THEN \* the report reads opts.outgroup, an attribute no option defines:
            \* AttributeError, before stree.reroot_at_midpoint is reached
            /\ pc' = "exit"
            /\ exit_status' = 1
            /\ UNCHANGED << opts, annotations >>
       ELSE /\ opts' = [opts EXCEPT !.edge_summarization = edge_summarization_of(opts, FALSE)]
            /\ annotations' = summarized_trees(tt_trees', split_distribution, taxon_namespace, opts')
            /\ pc' = "write"
            /\ UNCHANGED exit_status
    /\ UNCHANGED << given, tidx, taxon_namespace, topology_counter, parallel,
                    written, counted >>

\* "Writing results ...": the result trees, then the tree probabilities
\* when --trprobs was given, then the split edge lengths when
\* --extract-edges was given
write_results ==
    /\ pc = "write"
    /\ \E split_edge_map \in BOOLEAN :
        written' = {"result_trees"}
                      \cup (IF calc_tree_probs THEN {"tree_probabilities"} ELSE {})
                      \cup (IF split_edge_map THEN {"split_edges"} ELSE {})
    /\ pc' = "done"
    /\ exit_status' = 0
    /\ UNCHANGED << options, tidx, master, parallel, min_clade_freq, min_freq, tt_trees,
                    warnings, annotations, counted >>

Next ==
    \/ process_sources_serial_start
    \/ process_sources_serial_tree
    \/ process_sources_serial_return
    \/ process_sources_parallel_start
    \/ \E w \in Workers : worker_take(w)
    \/ \E w \in Workers : worker_tree(w)
    \/ \E w \in Workers : worker_end_of_source(w)
    \/ \E w \in Workers : worker_finish(w)
    \/ \E w \in Workers : worker_put_topology(w)
    \/ \E w \in Workers : kill(w)
    \/ collate_split_distribution
    \/ collate_topology_hash_map
    \/ process_sources_parallel_return
    \/ post_counting_report
    \/ construct_consensus_tree
    \/ write_results

Spec == Init /\ [][Next]_vars

(***************************************************************************)
(* Serial runs of SumTrees under every combination of the options for      *)
(* rooting, node ages and edge summarization, with and without a target    *)
(* tree file.                                                              *)
(***************************************************************************)
TargetSupportFiles ==
    { << YoungCladeTree, OldCladeTree >>, << UnrootedTree >>, << RootedTree >> }

\* no target file, or the trees of the target file
TargetFiles ==
    { << >>, << << YoungCladeTree >> >>, << << UnrootedTarget >> >>,
      << << YoungCladeTree, UnrootedTarget >> >> }

TargetInit ==
    /\ support_filepaths \in { << f >> : f \in TargetSupportFiles }
    /\ tree_offset \in 0..MaxBurnin
    /\ multiprocess = 0
    /\ weighted_trees = FALSE
    /\ calc_tree_probs = FALSE
    /\ pc = "options"
    /\ exit_status = -1
    /\ tidx = 0
    /\ taxon_namespace = << >>
    /\ split_distribution = SplitDistribution
    /\ topology_counter = EmptyCounts
    /\ sct = << >>
    /\ work_queue = << >>
    /\ result_split_dist_queue = << >>
    /\ result_topology_hash_map_queue = << >>
    /\ result_count = 0
    /\ min_clade_freq = GREATER_THAN_50_PERCENT
    /\ min_freq = GREATER_THAN_50_PERCENT
    /\ tt_trees = << >>
    /\ written = {}
    /\ warnings = {}
    /\ calc = NoCall
    /\ kills = 0
    /\ counted = [fp \in TreePositions(support_filepaths) |-> 0]
    /\ argv \in CommandLines
    /\ opts = parse_args(argv)
    /\ rooting_interpretation = "unset"
    /\ target_tree_filepath \in TargetFiles
    /\ annotations = << >>
    /\ messenger = ConsoleMessenger(FALSE)
    /\ messenger_lock = 0

TargetNext ==
    \/ main_cli_options
    \/ process_sources_serial_start
    \/ process_sources_serial_tree
    \/ process_sources_serial_return
    \/ post_counting_report
    \/ map_support_to_target_trees
    \/ construct_consensus_tree
    \/ write_results

TargetSpec == TargetInit /\ [][TargetNext]_vars

(***************************************************************************)
(* Definitions the properties share.                                       *)
(***************************************************************************)
counting_is_over == pc \in {"report", "target", "write", "done"}

counted_positions == { fp \in DOMAIN counted : counted[fp] > 0 }

counted_rootings == { support_filepaths[fp[1]][fp[2]].is_rooted : fp \in counted_positions }

RECURSIVE count_serially(_, _, _, _)
\* the trees of the input in file order, every tree parsed into one growing
\* namespace and counted into one distribution as often as the run counted it
count_serially(t, ns, sd, times) ==
    IF t >= TotalTrees(support_filepaths) THEN sd
    ELSE LET fp == Locate(support_filepaths, t, 1)
             tree == support_filepaths[fp[1]][fp[2]]
             ns2 == RegisterAll(ns, LeafLabels(tree))
         IN IF times >= counted[fp]
            THEN count_serially(t + 1, ns2, sd, 0)
            ELSE count_serially(t, ns, count_splits_on_tree(sd, tree, ns2, weighted_trees),
                                times + 1)

serial_reference == count_serially(0, << >>, SplitDistribution, 0)

\* every taxon of the input is in the first tree of the first file
taxa_are_in_first_tree ==
    \A fp \in DOMAIN counted :
        RegisterAll(discover_taxa(support_filepaths[1]),
                    LeafLabels(support_filepaths[fp[1]][fp[2]]))
            = discover_taxa(support_filepaths[1])

\* C1: in parallel mode, once the results of all workers are merged, the
\* master distribution holds the per-split counts, the total weight and the
\* number of trees that counting the same trees serially into one
\* distribution gives.
C1_MergeEqualsSerialCount ==
    (runs_parallel /\ counting_is_over) =>
        /\ split_distribution.split_counts = serial_reference.split_counts
        /\ split_distribution.sum_of_tree_weights = serial_reference.sum_of_tree_weights
        /\ split_distribution.total_trees_counted = serial_reference.total_trees_counted

\* the same, for inputs whose taxa are all in the first tree of the first file
MergeEqualsSerialCountOnSharedTaxa ==
    taxa_are_in_first_tree => C1_MergeEqualsSerialCount

(***************************************************************************)
(* Mixed rootings.                                                         *)
(***************************************************************************)
\* the tree the serial loop handled last
last_serial_position == Locate(support_filepaths, tidx - 1, 1)

\* C2: in serial mode, as soon as the trees counted include a rooted and an
\* unrooted one the run has ended with exit status 1; the tree counted last
\* is the one that made the rootings mixed, so no tree was counted after it.
C2_SerialAbortsOnMixedRootings ==
    (~runs_parallel /\ Cardinality(counted_rootings) > 1) =>
        /\ pc = "exit"
        /\ exit_status = 1
        /\ counted[last_serial_position] = 1
        /\ Cardinality({ support_filepaths[fp[1]][fp[2]].is_rooted :
                            fp \in counted_positions \ {last_serial_position} }) = 1
        /\ split_distribution.total_trees_counted = Cardinality(counted_positions)

\* a serial run that ended on mixed rootings with trees still unread
C2_Witness ==
    /\ ~runs_parallel
    /\ pc = "exit"
    /\ exit_status = 1
    /\ Cardinality(counted_rootings) > 1
    /\ tidx < TotalTrees(support_filepaths)

\* C3: a run, serial or parallel, whose counted trees include a rooted and
\* an unrooted one never reaches the summarization or the writing: nothing
\* is written, and when it ends it ends with exit status 1.
C3_MixedRootingsWriteNothing ==
    Cardinality(counted_rootings) > 1 =>
        /\ written = {}
        /\ tt_trees = << >>
        /\ pc \in {"collate", "collate_topology", "report", "exit"}
        /\ exit_status \in {-1, 1}
        /\ pc = "exit" <=> exit_status = 1

\* a parallel run ended by the report though no worker saw both rootings
C3_Witness ==
    /\ runs_parallel
    /\ pc = "exit"
    /\ exit_status = 1
    /\ written = {}
    /\ Cardinality(counted_rootings) > 1
    /\ \A w \in Workers :
            Cardinality(sct[w].split_distribution.tree_rooting_types_counted) <= 1

(***************************************************************************)
(* The workers.                                                            *)
(***************************************************************************)
worker_has_left_the_loop(wk) == wk.pc \in {"finish", "put_topology", "exited"}

\* C4: no file is received twice, by two workers or by one; a worker that
\* left the loop without a kill request found the work queue empty, and it
\* ends having published both its results.
C4_EachFileTakenAtMostOnce ==
    /\ \A w1 \in Workers, w2 \in Workers :
        \A i \in DOMAIN sct[w1].received, j \in DOMAIN sct[w2].received :
            sct[w1].received[i] = sct[w2].received[j] => (w1 = w2 /\ i = j)
    /\ \A w \in Workers :
        (worker_has_left_the_loop(sct[w]) /\ ~sct[w].kill_received) =>
            /\ work_queue = << >>
            /\ sct[w].pc = "exited" => sct[w].published = 2

\* one worker received both files, the other found the queue empty and ended
C4_Witness ==
    \E w1 \in Workers, w2 \in Workers :
        /\ Len(sct[w1].received) = 2
        /\ sct[w2].received = << >>
        /\ sct[w2].pc = "exited"
        /\ sct[w2].published = 2

\* C5: a worker that got the kill request while it was processing a file
\* consumes at most one more tree, receives no further task and puts nothing
\* on the result queues.
C5_KilledWorkerStops ==
    \A w \in Workers :
        sct[w].killed_at \in {"tree", "eof"} =>
            /\ sct[w].trees_after_kill <= 1
            /\ Len(sct[w].received) = sct[w].tasks_at_kill
            /\ sct[w].published = 0
            /\ sct[w].pc \in {"tree", "eof", "finish", "exited"}

\* a worker killed inside a file ended after the tree in progress, trees unread
C5_Witness ==
    \E w \in Workers :
        /\ sct[w].killed_at = "tree"
        /\ sct[w].trees_after_kill = 1
        /\ sct[w].pc = "exited"
        /\ sct[w].published = 0
        /\ sct[w].tidx < Len(support_filepaths[sct[w].source])

\* C6: when a cancelled worker has published nothing and every worker has
\* ended, the aggregator is not left waiting: it can still take a result or
\* return.
C6_AggregatorReturnsAfterKill ==
    ( /\ pc \in {"collate", "collate_topology"}
      /\ \A w \in Workers : sct[w].pc = "exited"
      /\ \E w \in Workers : sct[w].kill_received /\ sct[w].published = 0 ) =>
        ENABLED ( \/ collate_split_distribution
                  \/ collate_topology_hash_map
                  \/ process_sources_parallel_return )

\* C7: throughout a parallel run every worker's namespace is the namespace
\* discovered from the first file, as is the aggregator's: each label has one
\* bit index everywhere and no worker has added a taxon.
C7_NamespacesAgree ==
    (runs_parallel /\ pc # "main") =>
        /\ taxon_namespace = discover_taxa(support_filepaths[1])
        /\ \A w \in Workers : sct[w].taxon_namespace = taxon_namespace

(***************************************************************************)
(* Burn-in.                                                                *)
(***************************************************************************)
\* C8: when the counting is over, in either mode, the first tree_offset
\* trees of each file were skipped and every later tree was counted once.
C8_BurninIsPerFile ==
    counting_is_over =>
        \A fp \in DOMAIN counted :
            counted[fp] = IF fp[2] <= tree_offset THEN 0 ELSE 1

\* the same, for the parallel mode alone
BurninIsPerFileInParallel == runs_parallel => C8_BurninIsPerFile

(***************************************************************************)
(* The consensus threshold.                                                *)
(***************************************************************************)
consensus_is_built == pc \in {"write", "done"}

\* the splits the consensus tree could hold
candidate_splits == non_trivial_splits(split_distribution, taxon_namespace)

is_at_half(k) ==
    2 * split_distribution.split_counts[k] = split_distribution.sum_of_tree_weights

is_above_half(k) ==
    2 * split_distribution.split_counts[k] > split_distribution.sum_of_tree_weights

\* C9: the default threshold is strictly greater than 0.5, and the consensus
\* tree of a run with the default threshold holds no split whose frequency
\* is exactly 0.5.
C9_DefaultExcludesExactHalf ==
    (consensus_is_built /\ min_clade_freq = GREATER_THAN_50_PERCENT) =>
        /\ FloatGreater(GREATER_THAN_50_PERCENT, Half)
        /\ \A k \in tt_trees[1].splits : ~is_at_half(k)

SplitsAboveHalfAreIncluded ==
    (consensus_is_built /\ min_freq = Half) =>
        \A k \in candidate_splits : is_above_half(k) => k \in tt_trees[1].splits

\* C11: the consensus tree is built with min_freq the smaller of the
\* requested value and 1.0: a request above 1.0 gives 1.0 and the warning,
\* any other request is handed on unchanged without the warning, and in
\* both cases the run goes on to write its results.
C11_MinFreqIsClamped ==
    consensus_is_built =>
        /\ ~FloatGreater(min_freq, One)
        /\ ~FloatGreater(min_freq, min_clade_freq)
        /\ min_freq = One \/ min_freq = min_clade_freq
        /\ (warnings # {}) <=> FloatGreater(min_clade_freq, One)
        /\ exit_status \in {-1, 0}
        /\ tt_trees = << tree_from_splits(split_distribution, taxon_namespace, min_freq) >>
        /\ split_distribution.trees_counted_for_freqs = split_distribution.total_trees_counted

\* a request above 1.0 was reset to 1.0 and the results were written
C11_Witness ==
    /\ pc = "done"
    /\ exit_status = 0
    /\ FloatGreater(min_clade_freq, One)
    /\ min_freq = One
    /\ warnings # {}
    /\ "result_trees" \in written

(***************************************************************************)
(* The treesplit functions on their own: each call is drawn from the       *)
(* values the tests of test_datamodel_split_bitmasks.py call it with, and  *)
(* is made in one step that records what it returned.                      *)
(***************************************************************************)
\* IsTrivialTest: entry i + 1 is what the test requires of
\* is_trivial_split(i, mask), for the masks 0xF, 0x1F and 0x17
IsTrivialTest_0xF ==
    << TRUE, TRUE, TRUE, FALSE, TRUE, FALSE, FALSE, TRUE, TRUE, FALSE,
       FALSE, TRUE, FALSE, TRUE, TRUE, TRUE, TRUE, TRUE, TRUE, FALSE, TRUE,
       FALSE, FALSE, TRUE, TRUE, FALSE, FALSE, TRUE, FALSE, TRUE, TRUE,
       TRUE >>

IsTrivialTest_0x1F ==
    << TRUE, TRUE, TRUE, FALSE, TRUE, FALSE, FALSE, FALSE, TRUE, FALSE,
       FALSE, FALSE, FALSE, FALSE, FALSE, TRUE, TRUE, FALSE, FALSE, FALSE,
       FALSE, FALSE, FALSE, TRUE, FALSE, FALSE, FALSE, TRUE, FALSE, TRUE,
       TRUE, TRUE >>

IsTrivialTest_0x17 ==
    << TRUE, TRUE, TRUE, FALSE, TRUE, FALSE, FALSE, TRUE, TRUE, TRUE, TRUE,
       FALSE, TRUE, FALSE, FALSE, TRUE, TRUE, FALSE, FALSE, TRUE, FALSE,
       TRUE, TRUE, TRUE, TRUE, FALSE, FALSE, TRUE, FALSE, TRUE, TRUE, TRUE >>

IsTrivialTest_masks == {15, 31, 23}

IsTrivialTest_expected(i, mask) ==
    IF mask = 15 THEN IsTrivialTest_0xF[i + 1]
    ELSE IF mask = 31 THEN IsTrivialTest_0x1F[i + 1]
    ELSE IsTrivialTest_0x17[i + 1]

\* LowestBitTest: entry n + 1 is what the test requires of lowest_bit_only(n)
LowestBitTest_expected == << 0, 1, 2, 1, 4, 1, 2, 1, 8, 1, 2, 1, 4, 1, 2, 1, 16 >>

\* the lowest bit of n, found from the highest bit down
lowest_bit_only_from_the_top(n) ==
    IF n = 0 THEN 0
    ELSE LET bits == { b \in 0..n : Pow2(b) <= n }
         IN Pow2(CHOOSE b \in bits : \A c \in bits : c <= b)

RECURSIVE lowest_bit_only(_)
\* the value of the lowest set bit of n, 0 when n has none
lowest_bit_only(n) ==
    IF n = 0 THEN 0
    ELSE IF n % 2 = 1 THEN 1
    ELSE 2 * lowest_bit_only(n \div 2)

\* the variables of a run of SumTrees, which no call of a treesplit
\* function on its own touches
sumtrees_vars ==
    << support_filepaths, tree_offset, multiprocess, weighted_trees, calc_tree_probs,
       pc, exit_status, tidx, master, parallel, target, counted, argv, opts,
       rooting_interpretation, target_tree_filepath, messenger, messenger_lock >>

Call(op, args) == [op |-> op, called |-> FALSE, args |-> args]

Returned(call, result, expected) ==
    [op |-> call.op, called |-> TRUE, args |-> call.args, result |-> result,
     expected |-> expected]

is_called(op) == calc.op = op /\ calc.called

IsTrivialTest_calls ==
    { Call("is_trivial_split", << i, m >>) :
        i \in 0..(Len(IsTrivialTest_0xF) - 1), m \in IsTrivialTest_masks }

LowestBitTest_calls == { Call("lowest_bit_only", << n >>) : n \in 0..(Len(LowestBitTest_expected) - 1) }

\* assertEqual(r, treesplit.is_trivial_split(i, mask))
IsTrivialTest ==
    /\ calc.op = "is_trivial_split"
    /\ ~calc.called
    /\ calc' = Returned(calc, is_trivial_split(calc.args[1], calc.args[2]),
                        IsTrivialTest_expected(calc.args[1], calc.args[2]))
    /\ UNCHANGED sumtrees_vars

\* assertEqual(treesplit.lowest_bit_only(n), expected)
LowestBitTest ==
    /\ calc.op = "lowest_bit_only"
    /\ ~calc.called
    /\ calc' = Returned(calc, lowest_bit_only(calc.args[1]),
                        LowestBitTest_expected[calc.args[1] + 1])
    /\ UNCHANGED sumtrees_vars

\* split_to_list: the indices of the bits set in the split
RECURSIVE split_to_list_from(_, _)
split_to_list_from(split, b) ==
    IF split = 0 THEN {}
    ELSE (IF split % 2 = 1 THEN {b} ELSE {}) \cup split_to_list_from(split \div 2, b + 1)

split_to_list(split) == split_to_list_from(split, 0)

\* the trees encode_splits is called on, each read into a new namespace or
\* into one that holds the taxa A, B, C, D already
CladeMaskTest_tree == Tree(FALSE, 1, Shape_CladeMaskTest)

CladeMaskTest_calls ==
    { Call("encode_splits", << t, ns >>) :
        t \in { CladeMaskTest_tree, RootedTree, UnrootedTree, ConflictingTree, TreeWithE,
                TreeWithF },
        ns \in { << >>, << "A", "B", "C", "D" >> } }

\* what CladeMaskTest requires of the root edge and of the edge of the
\* first child of the root
CladeMaskTest_expected == [root |-> 0..5, first_child |-> {0, 1}]

\* treesplit.encode_splits(i): the split_bitmask of the edge above every node
CladeMaskTest ==
    /\ calc.op = "encode_splits"
    /\ ~calc.called
    /\ LET tree == calc.args[1]
           ns == RegisterAll(calc.args[2], LeafLabels(tree))
       IN calc' = Returned(calc,
                    [n \in DOMAIN tree.nodes |-> split_bitmask(tree, ns, n)],
                    IF tree = CladeMaskTest_tree /\ calc.args[2] = << >>
                    THEN CladeMaskTest_expected
                    ELSE [root |-> { IndexOf(ns, l) - 1 : l \in { tree.nodes[n].label :
                                        n \in { x \in DOMAIN tree.nodes : IsLeaf(tree, x) } } } ])
    /\ UNCHANGED sumtrees_vars

normalize_calls ==
    { Call("normalize", << i, m >>) :
        i \in 0..(Len(IsTrivialTest_0xF) - 1), m \in IsTrivialTest_masks }

\* a split is normalized against the taxa mask
normalize_split ==
    /\ calc.op = "normalize"
    /\ ~calc.called
    /\ calc' = Returned(calc, normalize(calc.args[1], calc.args[2]), "none")
    /\ UNCHANGED sumtrees_vars

\* the normalized split is normalized once more against the same mask
normalize_split_again ==
    /\ calc.op = "normalize"
    /\ calc.called
    /\ calc' = [op |-> "normalize_again", called |-> TRUE,
                args |-> << calc.result, calc.args[2] >>,
                split |-> calc.args[1],
                result |-> normalize(calc.result, calc.args[2]),
                expected |-> "none"]
    /\ UNCHANGED sumtrees_vars

CodecCalls ==
    IsTrivialTest_calls \cup LowestBitTest_calls \cup CladeMaskTest_calls \cup normalize_calls

CodecInit ==
    /\ calc \in CodecCalls
    /\ support_filepaths = << >>
    /\ tree_offset = 0
    /\ multiprocess = 0
    /\ weighted_trees = FALSE
    /\ calc_tree_probs = FALSE
    /\ pc = "treesplit"
    /\ exit_status = -1
    /\ tidx = 0
    /\ taxon_namespace = << >>
    /\ split_distribution = SplitDistribution
    /\ topology_counter = EmptyCounts
    /\ sct = << >>
    /\ work_queue = << >>
    /\ result_split_dist_queue = << >>
    /\ result_topology_hash_map_queue = << >>
    /\ result_count = 0
    /\ min_clade_freq = GREATER_THAN_50_PERCENT
    /\ min_freq = GREATER_THAN_50_PERCENT
    /\ tt_trees = << >>
    /\ written = {}
    /\ warnings = {}
    /\ kills = 0
    /\ counted = [fp \in {} |-> 0]
    /\ argv = NoOptions
    /\ opts = parse_args(NoOptions)
    /\ rooting_interpretation = "default-unrooted"
    /\ target_tree_filepath = << >>
    /\ annotations = << >>
    /\ messenger = ConsoleMessenger(FALSE)
    /\ messenger_lock = 0

CodecNext ==
    \/ IsTrivialTest
    \/ LowestBitTest
    \/ CladeMaskTest
    \/ normalize_split
    \/ normalize_split_again

CodecSpec == CodecInit /\ [][CodecNext]_vars

\* the bits of the split that lie inside the mask
masked_bits(call) == count_bits(BitAnd(call.args[1], call.args[2]))

\* C12 as stated: for every split s and every mask m, is_trivial_split(s, m)
\* is true exactly when s has one bit set or one bit fewer than m.
C12_TrivialIffOneOrAllButOneBit ==
    is_called("is_trivial_split") =>
        /\ calc.result = calc.expected
        /\ calc.result <=> ( \/ count_bits(calc.args[1]) = 1
                             \/ count_bits(calc.args[1]) = count_bits(calc.args[2]) - 1 )

\* C12 as amended: for every mask m and every split s that lies inside m
\* and has at least one and at most all but one of the bits of m,
\* is_trivial_split(s, m) is true exactly when s has one bit set or one bit
\* fewer than m; this is also what IsTrivialTest requires.
C12_ProperSplitTrivialIffOneOrAllButOneBit ==
    ( /\ is_called("is_trivial_split")
      /\ BitAnd(calc.args[1], calc.args[2]) = calc.args[1]
      /\ count_bits(calc.args[1]) >= 1
      /\ count_bits(calc.args[1]) <= count_bits(calc.args[2]) - 1 ) =>
        /\ calc.result = calc.expected
        /\ calc.result <=> ( \/ count_bits(calc.args[1]) = 1
                             \/ count_bits(calc.args[1]) = count_bits(calc.args[2]) - 1 )

\* a split inside a mask with gaps, holding all but one of its bits: trivial
C12_Witness ==
    /\ is_called("is_trivial_split")
    /\ calc.args = << 22, 23 >>
    /\ calc.result
    /\ calc.expected

\* C13: is_trivial_split(i, m) is decided by i AND m alone: it is true when
\* none, one, all but one or all of the bits of m are set in i, false for
\* every other number of bits; IsTrivialTest requires the same of the masks
\* 0xF, 0x1F and 0x17.
C13_TrivialByMaskedBitCount ==
    is_called("is_trivial_split") =>
        /\ calc.expected <=> masked_bits(calc) \in
                {0, 1, count_bits(calc.args[2]) - 1, count_bits(calc.args[2])}
        /\ calc.result = calc.expected
        /\ calc.result = is_trivial_split(BitAnd(calc.args[1], calc.args[2]), calc.args[2])

\* a split with bits outside a mask with gaps and two of its four bits: not trivial
C13_Witness ==
    /\ is_called("is_trivial_split")
    /\ calc.args = << 11, 23 >>
    /\ masked_bits(calc) = 2
    /\ ~calc.result
    /\ ~calc.expected

\* C14: lowest_bit_only(n) is 0 when n = 0, and otherwise the power of two
\* that divides n with an odd quotient; LowestBitTest requires the same.
C14_LowestBitOnly ==
    is_called("lowest_bit_only") =>
        /\ calc.result = calc.expected
        /\ (calc.args[1] = 0) <=> (calc.result = 0)
        /\ calc.args[1] # 0 =>
            /\ \E b \in 0..calc.args[1] : calc.result = Pow2(b)
            /\ calc.args[1] % calc.result = 0
            /\ (calc.args[1] \div calc.result) % 2 = 1

\* 12 = 8 + 4: the lowest bit is 4
C14_Witness ==
    /\ is_called("lowest_bit_only")
    /\ calc.args = << 12 >>
    /\ calc.result = 4

\* the encoded tree, the namespace it was read into and its bitmasks
encoded_tree == calc.args[1]
encoded_namespace == RegisterAll(calc.args[2], LeafLabels(encoded_tree))
has_bit(split, b) == (split \div Pow2(b)) % 2 = 1

\* C15: after encode_splits every leaf edge holds the single bit of its
\* taxon, the bit index being the taxon's place in the order of first
\* registration; every internal edge holds exactly the bits its child edges
\* hold; the root edge holds the bits of all the taxa of the tree, which is
\* what CladeMaskTest requires of its tree.
C15_EncodeSplits ==
    is_called("encode_splits") =>
        /\ \A n \in DOMAIN encoded_tree.nodes :
            IF IsLeaf(encoded_tree, n)
            THEN /\ count_bits(calc.result[n]) = 1
                 /\ encoded_namespace[CHOOSE b \in 1..Len(encoded_namespace) :
                        calc.result[n] = Pow2(b - 1)] = encoded_tree.nodes[n].label
            ELSE \A b \in 0..Len(encoded_namespace) :
                    has_bit(calc.result[n], b) <=>
                        \E c \in Children(encoded_tree, n) : has_bit(calc.result[c], b)
        /\ split_to_list(calc.result[1]) = calc.expected.root
        /\ Cardinality(split_to_list(calc.result[1])) = Len(LeafLabels(encoded_tree))
        /\ calc.args[2] = << >> =>
                calc.result[1] = Pow2(Len(LeafLabels(encoded_tree))) - 1
        /\ "first_child" \in DOMAIN calc.expected =>
                split_to_list(calc.result[2]) = calc.expected.first_child

\* the tree of CladeMaskTest encoded: six taxa at the root, t5 and t6 at its
\* first child
C15_Witness ==
    /\ is_called("encode_splits")
    /\ encoded_tree = CladeMaskTest_tree
    /\ calc.args[2] = << >>
    /\ calc.result[1] = 63
    /\ calc.result[2] = 3
    /\ calc.result[8] = 24

\* C17: normalizing a normalized split against the same mask gives it
\* back, and it is the smaller of its two halves.
C17_NormalizeIsIdempotent ==
    is_called("normalize_again") =>
        /\ calc.result = calc.args[1]
        /\ calc.result <= BitXor(calc.args[2], calc.result)
        /\ calc.result \in { calc.split, BitXor(calc.args[2], calc.split) }

\* a split the first normalization replaced by its other half, normalized again
C17_Witness ==
    /\ is_called("normalize_again")
    /\ calc.split = 12
    /\ calc.args = << 3, 15 >>
    /\ calc.result = 3

(***************************************************************************)
(* The split distribution while trees are counted into it.                 *)
(***************************************************************************)
RECURSIVE times_counted(_)
times_counted(positions) ==
    IF positions = {} THEN 0
    ELSE LET fp == CHOOSE x \in positions : TRUE
         IN counted[fp] + times_counted(positions \ {fp})

\* the trees of the files the worker has received
positions_of(wk) ==
    { fp \in DOMAIN counted : \E i \in DOMAIN wk.received : wk.received[i] = fp[1] }

\* C16: a split distribution into which k trees have been counted, weighted
\* or not, has total_trees_counted = k and no tree counted for frequencies:
\* the master distribution of a serial run before the consensus tree is
\* built, and the distribution of every worker of a parallel run.
C16_CountingDoesNotFinalizeFrequencies ==
    /\ (~runs_parallel /\ pc \in {"serial", "report", "target", "exit"}) =>
            /\ split_distribution.total_trees_counted = times_counted(DOMAIN counted)
            /\ split_distribution.trees_counted_for_freqs = 0
    /\ \A w \in Workers :
            /\ sct[w].split_distribution.total_trees_counted
                    = times_counted(positions_of(sct[w]))
            /\ sct[w].split_distribution.trees_counted_for_freqs = 0

\* two trees counted with their weights 1 and 2: two trees, weight 3
C16_Witness ==
    /\ ~runs_parallel
    /\ pc = "report"
    /\ weighted_trees
    /\ split_distribution.total_trees_counted = 2
    /\ split_distribution.sum_of_tree_weights = 3
    /\ split_distribution.trees_counted_for_freqs = 0

(***************************************************************************)
(* The consensus tree.                                                     *)
(***************************************************************************)
consensus_tree == tt_trees[1]

leaf_nodes(tree) == { n \in DOMAIN tree.nodes : IsLeaf(tree, n) }

\* the internal edges: the edges above the internal nodes other than the root
internal_edges(tree) == { n \in DOMAIN tree.nodes : ~IsLeaf(tree, n) /\ tree.nodes[n].parent # 0 }

\* C18: whatever the distribution, also one with conflicting splits, and
\* whatever min_freq, the consensus tree has one leaf per taxon of the
\* namespace, at most N - 2 internal edges, one per split incorporated, and
\* the splits incorporated are pairwise compatible.
C18_ConsensusTreeIsWellFormed ==
    consensus_is_built =>
        /\ Cardinality(leaf_nodes(consensus_tree)) = Len(taxon_namespace)
        /\ \A i \in 1..Len(taxon_namespace) :
                \E n \in leaf_nodes(consensus_tree) :
                    consensus_tree.nodes[n].label = taxon_namespace[i]
        /\ Cardinality(internal_edges(consensus_tree)) <= Len(taxon_namespace) - 2
        /\ Cardinality(internal_edges(consensus_tree)) = Cardinality(consensus_tree.splits)
        /\ \A a \in consensus_tree.splits, b \in consensus_tree.splits : is_compatible(a, b)
        /\ \A n \in internal_edges(consensus_tree) :
                Cardinality(Children(consensus_tree, n)) >= 2

\* conflicting splits met the threshold, and one of them was left out
C18_Witness ==
    /\ consensus_is_built
    /\ \E a \in candidate_splits, b \in candidate_splits :
            /\ ~is_compatible(a, b)
            /\ FrequencyAtLeast(split_distribution.split_counts[a],
                                split_distribution.sum_of_tree_weights, min_freq)
            /\ FrequencyAtLeast(split_distribution.split_counts[b],
                                split_distribution.sum_of_tree_weights, min_freq)
            /\ a \in consensus_tree.splits
            /\ b \notin consensus_tree.splits
    /\ Cardinality(internal_edges(consensus_tree)) = 1

counted_trees == { support_filepaths[fp[1]][fp[2]] : fp \in counted_positions }

\* the master distribution holds exactly the splits of the tree, encoded in
\* the master namespace, each at frequency 1.0
holds_exactly_the_splits_of(tree) ==
    /\ \A n \in leaf_nodes(tree) : HasTaxon(taxon_namespace, tree.nodes[n].label)
    /\ DOMAIN split_distribution.split_counts
            = DOMAIN count_edges(EmptyCounts, tree, taxon_namespace, 1, 1)
    /\ \A k \in DOMAIN split_distribution.split_counts :
            split_distribution.split_counts[k] = split_distribution.sum_of_tree_weights
    /\ split_distribution.tree_rooting_types_counted = {tree.is_rooted}

\* C19: when the distribution holds the splits of one tree only, each at
\* frequency 1.0, the non-trivial splits of the re-encoded consensus tree
\* are the non-trivial splits of that tree.
C19_RoundTrip ==
    consensus_is_built =>
        \A tree \in counted_trees :
            holds_exactly_the_splits_of(tree) =>
            /\ topology_key(consensus_tree, taxon_namespace) = topology_key(tree, taxon_namespace)
            /\ consensus_tree.splits = topology_key(tree, taxon_namespace)
            /\ consensus_tree.is_rooted = tree.is_rooted

\* the rooted tree ((A,B),(C,D)) came back with its two clades
C19_Witness ==
    /\ consensus_is_built
    /\ counted_trees = { RootedTree }
    /\ holds_exactly_the_splits_of(RootedTree)
    /\ topology_key(consensus_tree, taxon_namespace) = {3, 12}
    /\ Cardinality(internal_edges(consensus_tree)) = 2

(***************************************************************************)
(* Split support summed over a tree.                                       *)
(***************************************************************************)
\* every tree of the input has the taxa of the master namespace, all of them
trees_share_the_full_taxon_set ==
    \A fp \in DOMAIN counted :
        { support_filepaths[fp[1]][fp[2]].nodes[n].label :
            n \in leaf_nodes(support_filepaths[fp[1]][fp[2]]) }
        = { taxon_namespace[i] : i \in 1..Len(taxon_namespace) }

\* C20: for a tree counted into the distribution with other trees over the
\* same N taxa, the sum of split support with the external splits is the
\* sum without them plus N (times the total weight, the sums being sums of
\* counts): every leaf split has support 1.
C20_ExternalSplitsAddTaxonCount ==
    (pc \in {"target", "write", "done"} /\ trees_share_the_full_taxon_set) =>
        \A tree \in counted_trees :
            /\ sum_of_split_support_on_tree(split_distribution, tree, taxon_namespace, TRUE)
                = sum_of_split_support_on_tree(split_distribution, tree, taxon_namespace, FALSE)
                    + Len(taxon_namespace) * split_distribution.sum_of_tree_weights
            /\ \A n \in leaf_nodes(tree) :
                    CountOf(split_distribution.split_counts, split_key(tree, taxon_namespace, n))
                        = split_distribution.sum_of_tree_weights

\* two conflicting trees of weights 1 and 2 over four taxa: the internal
\* split of the first has count 1, the four leaf splits add 4 * 3
C20_Witness ==
    /\ pc = "target"
    /\ trees_share_the_full_taxon_set
    /\ weighted_trees
    /\ counted_trees = { UnrootedTree, ConflictingTree }
    /\ sum_of_split_support_on_tree(split_distribution, UnrootedTree, taxon_namespace, FALSE) = 1
    /\ sum_of_split_support_on_tree(split_distribution, UnrootedTree, taxon_namespace, TRUE) = 13

(***************************************************************************)
(* The options: rooting interpretation and node ages.                      *)
(***************************************************************************)
\* --ultrametric was given, or --edges with mean-age or median-age
treated_as_ultrametric == argv.ultrametric \/ argv.edges \in {"mean-age", "median-age"}

\* C24: for every combination of --rooted, --unrooted, --ultrametric,
\* --no-node-ages and --edges: when the trees are treated as ultrametric
\* the rooting interpretation is force-rooted, also after --unrooted;
\* otherwise it is force-rooted after --rooted, force-unrooted after
\* --unrooted (the later of the two when both were given) and
\* default-unrooted after neither.
C24_RootingInterpretation ==
    pc # "options" =>
        /\ opts.ultrametric_trees <=> treated_as_ultrametric
        /\ rooting_interpretation =
                IF treated_as_ultrametric THEN "force-rooted"
                ELSE IF argv.rooting = << >> THEN "default-unrooted"
                ELSE IF argv.rooting[Len(argv.rooting)] = "--rooted" THEN "force-rooted"
                ELSE "force-unrooted"

\* --unrooted --ultrametric: the unrooted tree of the file was counted as a rooted one
C24_Witness ==
    /\ pc = "done"
    /\ argv.rooting = << "--unrooted" >>
    /\ argv.ultrametric
    /\ argv.no_node_ages
    /\ rooting_interpretation = "force-rooted"
    /\ support_filepaths = << << UnrootedTree >> >>
    /\ split_distribution.tree_rooting_types_counted = {TRUE}

\* the run has summarized node ages onto the output trees
node_ages_are_summarized ==
    /\ pc \in {"write", "done"}
    /\ opts.edge_summarization \in {"mean-age", "median-age"}

\* C27: whenever node ages are summarized onto the output trees, the node
\* ages were collected while the splits were counted (ignore_node_ages was
\* false), for every combination of --ultrametric, --no-node-ages, --edges
\* and --target.
C27_SummarizedNodeAgesWereCollected ==
    node_ages_are_summarized => ~split_distribution.ignore_node_ages

(***************************************************************************)
(* The target trees.                                                       *)
(***************************************************************************)
\* the trees of the target file as the parser yields them
target_trees ==
    [i \in DOMAIN target_tree_filepath[1] |->
        yield_from_files(target_tree_filepath[1][i], rooting_interpretation)]

\* C26: a target tree is accepted for support mapping exactly when its
\* rootedness is that of the counted support trees: the step that maps the
\* support goes on to the summarizing and writing if and only if every tree
\* of the target file is rooted when the support trees are rooted and
\* unrooted when they are unrooted.
C26_TargetAcceptedIffRootingMatches ==
    [][ ( /\ pc = "target"
          /\ target_tree_filepath # << >>
          /\ ~opts.root_target_at_midpoint
          /\ split_distribution.total_trees_counted > 0 )
        => ( pc' = "write" <=>
                \A i \in DOMAIN target_trees :
                    target_trees[i].is_rooted = is_all_counted_trees_rooted(split_distribution) )
      ]_vars

\* C30: with --root-target-at-midpoint the run gets from the target phase
\* to the writing of the results without an error, when the consensus tree
\* is constructed and when a target file is given (here with the trees
\* forced to be rooted, so that no rooting test can refuse the target).
C30_MidpointRootingReachesWriting ==
    [][ ( /\ pc = "target"
          /\ opts.root_target_at_midpoint
          /\ (target_tree_filepath = << >> \/ rooting_interpretation = "force-rooted") )
        => ( pc' = "write" /\ exit_status' = -1 )
      ]_vars

(***************************************************************************)
(* The output trees.                                                       *)
(***************************************************************************)
\* the nodes of the output trees: << tree, node >>
OutputNodes == { << i, n >> : i \in DOMAIN annotations, n \in 1..7 } \cap
               UNION { { << i, n >> : n \in DOMAIN annotations[i] } : i \in DOMAIN annotations }

\* an output node whose split no counted tree has
split_was_never_observed(i, n) ==
    split_key(tt_trees[i], taxon_namespace, n) \notin DOMAIN split_distribution.split_counts

edge_lengths_are_summarized == opts.edge_summarization \in {"mean-length", "median-length"}

\* C22: an edge of a target tree whose split was never observed is no error:
\* the run gets to the writing, the support of the edge is the frequency 0.0,
\* also when the total weight counted is 0, and its summarized length is
\* unset, not 0.
C22_UnobservedSplitHasZeroSupportAndUnsetLength ==
    (pc \in {"write", "done"} /\ target_tree_filepath # << >>) =>
        \A e \in OutputNodes :
            split_was_never_observed(e[1], e[2]) =>
                /\ annotations[e[1]][e[2]].support[1] = 0
                /\ annotations[e[1]][e[2]].support[2] > 0
                /\ edge_lengths_are_summarized => annotations[e[1]][e[2]].length = Unset

C22_Witness ==
    /\ pc = "write"
    /\ target_tree_filepath # << >>
    /\ edge_lengths_are_summarized
    /\ split_distribution.sum_of_tree_weights > 0
    /\ \E e \in OutputNodes :
        /\ split_was_never_observed(e[1], e[2])
        /\ \E o \in OutputNodes :
            /\ o[1] = e[1]
            /\ ~split_was_never_observed(o[1], o[2])
            /\ IsSet(annotations[o[1]][o[2]].length)
            /\ annotations[o[1]][o[2]].support[1] > 0

C22_WitnessNothingCounted ==
    /\ pc = "write"
    /\ target_tree_filepath # << >>
    /\ split_distribution.sum_of_tree_weights = 0
    /\ \E e \in OutputNodes : split_was_never_observed(e[1], e[2])

\* the parent of an output node; 0 for the root
parent_of(e) == tt_trees[e[1]].nodes[e[2]].parent

\* the summary of the ages sampled for the split of an output node, as it
\* is before any pass over the tree
sampled_age(e) ==
    summary_of(split_distribution.split_node_ages,
               split_key(tt_trees[e[1]], taxon_namespace, e[2]), opts.edge_summarization)

\* C21: with collapse_negative_edges, on every output tree a parent's
\* summarized age is at least the summarized age of each of its children,
\* so at least their maximum, and no edge has a negative length.
C21_CollapsedAgesAreMonotone ==
    ( /\ pc \in {"write", "done"}
      /\ node_ages_are_summarized
      /\ opts.collapse_negative_edges ) =>
        \A e \in OutputNodes :
            (parent_of(e) # 0 /\ IsSet(annotations[e[1]][e[2]].age)) =>
                /\ IsSet(annotations[e[1]][parent_of(e)].age)
                /\ AtLeast(annotations[e[1]][parent_of(e)].age, annotations[e[1]][e[2]].age)
                /\ annotations[e[1]][e[2]].length[1] >= 0

\* a child sampled older than its parent, on a tree of three levels
C21_Witness ==
    /\ pc = "write"
    /\ node_ages_are_summarized
    /\ opts.collapse_negative_edges
    /\ \E e \in OutputNodes :
        /\ parent_of(e) # 0
        /\ parent_of(<< e[1], parent_of(e) >>) # 0
        /\ IsSet(sampled_age(e))
        /\ IsSet(sampled_age(<< e[1], parent_of(e) >>))
        /\ ~AtLeast(sampled_age(<< e[1], parent_of(e) >>), sampled_age(e))
        /\ annotations[e[1]][parent_of(e)].age = annotations[e[1]][e[2]].age
        /\ annotations[e[1]][parent_of(<< e[1], parent_of(e) >>)].age
                = annotations[e[1]][e[2]].age

MaxLiveProcesses == 3

LiveFiles == { << UnrootedTree >>, << UnrootedTree, ConflictingTree >> }

\* runs of the parallel mode: two files or more, one worker or more
LiveInit ==
    /\ support_filepaths \in UNION { [1..n -> LiveFiles] : n \in 2..MaxFiles }
    /\ tree_offset = 0
    /\ multiprocess \in 1..MaxLiveProcesses
    /\ weighted_trees = FALSE
    /\ calc_tree_probs \in BOOLEAN
    /\ pc = "main"
    /\ exit_status = -1
    /\ tidx = 0
    /\ taxon_namespace = << >>
    /\ split_distribution = SplitDistribution
    /\ topology_counter = EmptyCounts
    /\ sct = << >>
    /\ work_queue = << >>
    /\ result_split_dist_queue = << >>
    /\ result_topology_hash_map_queue = << >>
    /\ result_count = 0
    /\ min_clade_freq = GREATER_THAN_50_PERCENT
    /\ min_freq = GREATER_THAN_50_PERCENT
    /\ tt_trees = << >>
    /\ written = {}
    /\ warnings = {}
    /\ calc = NoCall
    /\ kills = 0
    /\ counted = [fp \in TreePositions(support_filepaths) |-> 0]
    /\ argv = NoOptions
    /\ opts = edge_lengths_options(parse_args(NoOptions))
    /\ rooting_interpretation = "default-unrooted"
    /\ target_tree_filepath = << >>
    /\ annotations = << >>
    /\ messenger = ConsoleMessenger(FALSE)
    /\ messenger_lock = 0

\* SplitCountingWorker.run of the worker with process_idx w - 1
run(w) ==
    /\ w \in Workers
    /\ \/ worker_take(w)
       \/ worker_tree(w)
       \/ worker_end_of_source(w)
       \/ worker_finish(w)
       \/ worker_put_topology(w)

\* the collating loop of process_sources_parallel
collate_results ==
    \/ collate_split_distribution
    \/ collate_topology_hash_map
    \/ process_sources_parallel_return

LiveNext ==
    \/ process_sources_parallel_start
    \/ \E w \in 1..MaxLiveProcesses : run(w)
    \/ collate_results

\* the steps of run(w) outside the pass over a tree
run_between_trees(w) ==
    /\ w \in Workers
    /\ \/ worker_take(w)
       \/ worker_end_of_source(w)
       \/ worker_finish(w)
       \/ worker_put_topology(w)

\* worker_tree(w) is possible exactly when the worker has a tree to parse
parses_tree(w) == w \in Workers /\ sct[w].pc = "tree"

\* the steps of worker_tree(w): they alone move a worker on by one tree
worker_tree_taken(w) == parses_tree(w) /\ sct'[w].tidx = sct[w].tidx + 1

\* WF_vars(worker_tree(w)) with ENABLED written as the state predicate it is
weakly_fair_worker_tree(w) == []<>(~parses_tree(w)) \/ []<><<worker_tree_taken(w)>>_vars

FairSpec ==
    /\ LiveInit
    /\ [][LiveNext]_vars
    /\ WF_vars(process_sources_parallel_start)
    /\ \A w \in 1..MaxLiveProcesses : WF_vars(run_between_trees(w)) /\ weakly_fair_worker_tree(w)
    /\ WF_vars(collate_results)

\* every worker has put one split distribution and one topology map and has
\* ended, and process_sources_parallel has returned after as many merges of
\* each as there are workers
parallel_run_is_complete ==
    /\ pc = "report"
    /\ result_count = multiprocess
    /\ result_split_dist_queue = << >>
    /\ result_topology_hash_map_queue = << >>
    /\ split_distribution.total_trees_counted = TotalTrees(support_filepaths)
    /\ \A w \in Workers : sct[w].pc = "exited" /\ sct[w].published = 2

\* C28: when no worker is cancelled, whatever the number of workers (also
\* more of them than input files) and of files, every worker eventually
\* publishes exactly one split distribution and exactly one topology map,
\* and the aggregator ends after it has merged num_processes of each.
C28_ParallelRunTerminates ==
    <>(kills = 0 /\ parallel_run_is_complete)

\* more workers than files: a worker that found the work queue empty at once
C28_Witness ==
    /\ kills = 0
    /\ parallel_run_is_complete
    /\ multiprocess > Len(support_filepaths)
    /\ \E w \in Workers : sct[w].received = << >>

(***************************************************************************)
(* The messages of the workers: SplitCountingWorker.send_message and the   *)
(* messenger lock the workers share.                                       *)
(***************************************************************************)
NoMessage == [text |-> "", source |-> 0, level |-> 0]

Message(text, source, level) == [text |-> text, source |-> source, level |-> level]

was_sent(wk, msg) == \E i \in DOMAIN wk.sent : wk.sent[i] = msg

\* the message run() sends next where the worker is: send_info when a task
\* was received and when it was completed, send_warning at a kill request;
\* with the default log frequency no tree of a file this short is reported
message_due(wk) ==
    IF wk.pc = "tree" /\ wk.tidx = 0
          /\ ~was_sent(wk, Message("Received task", wk.source, MESSAGING_LEVEL.INFO))
    THEN Message("Received task", wk.source, MESSAGING_LEVEL.INFO)
    ELSE IF wk.pc = "take" /\ wk.source # 0
          /\ ~was_sent(wk, Message("Completed task", wk.source, MESSAGING_LEVEL.INFO))
    THEN Message("Completed task", wk.source, MESSAGING_LEVEL.INFO)
    ELSE IF wk.pc = "exited" /\ wk.kill_received /\ wk.published = 0
          /\ ~was_sent(wk, Message("Terminating in response to kill request.", 0,
                                   MESSAGING_LEVEL.WARNING))
    THEN Message("Terminating in response to kill request.", 0, MESSAGING_LEVEL.WARNING)
    ELSE NoMessage

\* run() goes on: it is in no call of send_message and has none to make
proceeds(w) ==
    /\ w \in Workers
    /\ sct[w].sending = "no"
    /\ message_due(sct[w]) = NoMessage

\* what a step of send_message leaves as it is
outside_send_message ==
    << support_filepaths, tree_offset, multiprocess, weighted_trees, calc_tree_probs, calc,
       argv, opts, rooting_interpretation, target_tree_filepath, messenger, pc, exit_status,
       tidx, master, work_queue, result_split_dist_queue, result_topology_hash_map_queue,
       result_count, target, kills, counted >>

\* a lock that lets every caller in
acquire_never_blocks(lock) == TRUE

\* messenger_lock.acquire() returns only when no process holds the lock
acquire_returns(lock) == lock = 0

\* the call of send_message up to messenger_lock.acquire(): a message below
\* the messaging level, or any to a silent messenger, is dropped at once
send_message(w) ==
    /\ w \in Workers
    /\ sct[w].sending = "no"
    /\ message_due(sct[w]) # NoMessage
    /\ sct' = [sct EXCEPT
            ![w].sent = Append(@, message_due(sct[w])),
            ![w].sending =
                IF messenger.messaging_level > message_due(sct[w]).level \/ messenger.silent
                THEN "no" ELSE "acquire"]
    /\ UNCHANGED << outside_send_message, messenger_lock >>

\* self.messenger_lock.acquire()
messenger_lock_acquire(w) ==
    /\ w \in Workers
    /\ sct[w].sending = "acquire"
    /\ acquire_returns(messenger_lock)
    /\ messenger_lock' = w
    /\ sct' = [sct EXCEPT ![w].sending = "log"]
    /\ UNCHANGED outside_send_message

\* self.messenger.log(...): it returns or it raises
messenger_log(w) ==
    /\ w \in Workers
    /\ sct[w].sending = "log"
    /\ \E raises \in BOOLEAN :
            sct' = [sct EXCEPT ![w].sending = IF raises THEN "raise" ELSE "return"]
    /\ UNCHANGED << outside_send_message, messenger_lock >>

\* finally: self.messenger_lock.release(); what log raised then ends run()
\* and with it the process, which puts no result
messenger_lock_release(w) ==
    /\ w \in Workers
    /\ sct[w].sending \in {"raise", "return"}
    /\ messenger_lock' = 0
    /\ sct' = [sct EXCEPT
            ![w].sending = IF @ = "raise" THEN "raised" ELSE "no",
            ![w].pc = IF sct[w].sending = "raise" THEN "exited" ELSE @]
    /\ UNCHANGED outside_send_message

\* runs of the parallel mode with and without --quiet
MessengerInit ==
    /\ support_filepaths \in UNION { [1..n -> LiveFiles] : n \in 2..MaxFiles }
    /\ tree_offset = 0
    /\ multiprocess \in 1..MaxProcesses
    /\ weighted_trees = FALSE
    /\ calc_tree_probs = FALSE
    /\ pc = "main"
    /\ exit_status = -1
    /\ tidx = 0
    /\ taxon_namespace = << >>
    /\ split_distribution = SplitDistribution
    /\ topology_counter = EmptyCounts
    /\ sct = << >>
    /\ work_queue = << >>
    /\ result_split_dist_queue = << >>
    /\ result_topology_hash_map_queue = << >>
    /\ result_count = 0
    /\ min_clade_freq = GREATER_THAN_50_PERCENT
    /\ min_freq = GREATER_THAN_50_PERCENT
    /\ tt_trees = << >>
    /\ written = {}
    /\ warnings = {}
    /\ calc = NoCall
    /\ kills = 0
    /\ counted = [fp \in TreePositions(support_filepaths) |-> 0]
    /\ argv = NoOptions
    /\ opts = edge_lengths_options(parse_args(NoOptions))
    /\ rooting_interpretation = "default-unrooted"
    /\ target_tree_filepath = << >>
    /\ annotations = << >>
    /\ messenger \in { ConsoleMessenger(quiet) : quiet \in BOOLEAN }
    /\ messenger_lock = 0

MessengerNext ==
    \/ process_sources_parallel_start
    \/ \E w \in 1..MaxProcesses : send_message(w)
    \/ \E w \in 1..MaxProcesses : messenger_lock_acquire(w)
    \/ \E w \in 1..MaxProcesses : messenger_log(w)
    \/ \E w \in 1..MaxProcesses : messenger_lock_release(w)
    \/ \E w \in 1..MaxProcesses : proceeds(w) /\ run(w)
    \/ \E w \in Workers : kill(w)
    \/ collate_results

\* messenger.log ends, by returning or by raising, and a process that can
\* have the lock or give it back does so
MessengerSpec ==
    /\ MessengerInit
    /\ [][MessengerNext]_vars
    /\ \A w \in 1..MaxProcesses :
            /\ WF_vars(messenger_lock_acquire(w))
            /\ WF_vars(messenger_log(w))
            /\ WF_vars(messenger_lock_release(w))

\* the workers inside messenger.log, up to the release of the lock
inside_log == { w \in Workers : sct[w].sending \in {"log", "raise", "return"} }

\* a step in which worker w reads the work queue or updates its split
\* distribution or its topology counter
reads_queue_or_counts(w) ==
    \/ sct'[w].received # sct[w].received
    \/ sct'[w].split_distribution # sct[w].split_distribution
    \/ sct'[w].topology_hash_map # sct[w].topology_hash_map
    \/ sct[w].pc = "take" /\ sct'[w].pc = "finish"

\* C29: at most one worker is inside messenger.log at any time; the lock is
\* held by a worker inside send_message only, so it is released after every
\* send_message, also when logging raised; no worker holds it in a step that
\* reads the work queue or updates its split distribution or topology
\* counter; and a worker that waits for the lock gets it.
C29_MessengerLockSerializesLogging ==
    /\ [](/\ Cardinality(inside_log) <= 1
          /\ \A w \in Workers : w \in inside_log <=> messenger_lock = w
          /\ messenger_lock = 0 <=> inside_log = {})
    /\ [][\A w \in Workers : reads_queue_or_counts(w) => messenger_lock # w]_vars
    /\ \A w \in 1..MaxProcesses :
            (w \in Workers /\ sct[w].sending = "acquire") ~> (messenger_lock = w)

\* a worker waits for the lock while the logging of the other has raised
C29_Witness ==
    \E w \in Workers : \E v \in Workers :
        /\ sct[w].sending = "acquire"
        /\ sct[v].sending = "raise"
        /\ messenger_lock = v

(***************************************************************************)
(* The tree probabilities: TopologyCounter.calc_tree_freqs and the table   *)
(* main_cli writes from it.                                                *)
(***************************************************************************)
\* the first of the topologies with the highest count
first_most_frequent(map) ==
    CHOOSE i \in DOMAIN map :
        /\ \A j \in DOMAIN map : map[j].count <= map[i].count
        /\ \A j \in 1..(i - 1) : map[j].count < map[i].count

RECURSIVE sorted_by_frequency(_)
\* by descending frequency, topologies of one frequency in the order of the map
sorted_by_frequency(map) ==
    IF map = << >> THEN << >>
    ELSE LET i == first_most_frequent(map)
         IN << map[i] >>
                \o sorted_by_frequency([k \in 1..(Len(map) - 1) |->
                                            IF k < i THEN map[k] ELSE map[k + 1]])

RECURSIVE total_count(_)
total_count(map) == IF map = << >> THEN 0 ELSE Head(map).count + total_count(Tail(map))

\* calc_tree_freqs: topology -> (count, proportion), in that order
calc_tree_freqs(map) ==
    [k \in DOMAIN map |->
        [ key |-> sorted_by_frequency(map)[k].key,
          count |-> sorted_by_frequency(map)[k].count,
          prop |-> << sorted_by_frequency(map)[k].count, total_count(map) >> ]]

RECURSIVE cumulative_prob(_, _)
\* cumulative_prob += prop, over the entries up to idx
cumulative_prob(tree_freqs, idx) ==
    IF idx = 0 THEN << 0, 1 >>
    ELSE << cumulative_prob(tree_freqs, idx - 1)[1] + tree_freqs[idx].prop[1],
            tree_freqs[idx].prop[2] >>

\* the trees of the tree probability file
tree_probabilities(map) ==
    [idx \in DOMAIN map |->
        [ label |-> << "Tree", idx >>,
          key |-> calc_tree_freqs(map)[idx].key,
          count |-> calc_tree_freqs(map)[idx].count,
          probability |-> calc_tree_freqs(map)[idx].prop,
          cumulative_probability |-> cumulative_prob(calc_tree_freqs(map), idx) ]]

RECURSIVE trees_in_order(_)
\* the trees of the files as one pass over the files yields them
trees_in_order(files) ==
    IF files = << >> THEN << >> ELSE Head(files) \o trees_in_order(Tail(files))

RECURSIVE count_topologies(_, _, _)
\* the topology map of one counter that counts the trees in this order
count_topologies(map, trees, ns) ==
    IF trees = << >> THEN map
    ELSE count_topologies(
            topology_count(map, yield_from_files(Head(trees), rooting_interpretation), ns,
                           weighted_trees),
            Tail(trees), ns)

\* files of one tree or two over the same four taxa, all unrooted
TableFiles == { << UnrootedTree >>, << ConflictingTree >>, << ConflictingTree, UnrootedTree >> }

\* runs with --trprobs and no burn-in, serial and parallel
TableInit ==
    /\ support_filepaths \in UNION { [1..n -> TableFiles] : n \in 1..MaxFiles }
    /\ tree_offset = 0
    /\ multiprocess \in 0..MaxProcesses
    /\ weighted_trees \in BOOLEAN
    /\ calc_tree_probs = TRUE
    /\ pc = "main"
    /\ exit_status = -1
    /\ tidx = 0
    /\ taxon_namespace = << >>
    /\ split_distribution = SplitDistribution
    /\ topology_counter = EmptyCounts
    /\ sct = << >>
    /\ work_queue = << >>
    /\ result_split_dist_queue = << >>
    /\ result_topology_hash_map_queue = << >>
    /\ result_count = 0
    /\ min_clade_freq = GREATER_THAN_50_PERCENT
    /\ min_freq = GREATER_THAN_50_PERCENT
    /\ tt_trees = << >>
    /\ written = {}
    /\ warnings = {}
    /\ calc = NoCall
    /\ kills = 0
    /\ counted = [fp \in TreePositions(support_filepaths) |-> 0]
    /\ argv = NoOptions
    /\ opts = edge_lengths_options(parse_args(NoOptions))
    /\ rooting_interpretation = "default-unrooted"
    /\ target_tree_filepath = << >>
    /\ annotations = << >>
    /\ messenger = ConsoleMessenger(FALSE)
    /\ messenger_lock = 0

TableSpec == TableInit /\ [][Next]_vars

tree_probabilities_are_written == pc = "done" /\ "tree_probabilities" \in written

\* the table has the topologies by non-increasing frequency, the k-th is
\* labelled Tree<k> and its cumulative probability is the sum of the
\* proportions of the entries up to it
table_is_ranked_and_cumulative(table) ==
    /\ \A k \in DOMAIN table :
        /\ table[k].label = << "Tree", k >>
        /\ table[k].cumulative_probability[1] = SumOf([i \in 1..k |-> table[i].count])
        /\ table[k].cumulative_probability[2] = table[k].probability[2]
        /\ table[k].probability[1] = table[k].count
    /\ \A k \in 1..(Len(table) - 1) : table[k].count >= table[k + 1].count
    /\ table # << >> => table[Len(table)].cumulative_probability[1]
                            = table[Len(table)].cumulative_probability[2]

\* C25: the tree probability table has the topologies by non-increasing
\* frequency, with Tree<k> as the label of the k-th and the sum of the
\* proportions up to it as its cumulative probability, and it is the table
\* of a serial pass over the files, which has the topologies of one
\* frequency in the order first met, in the serial and in the parallel
\* mode, whatever the order in which the workers' results arrive.
C25_TreeProbabilityTableIsThatOfASerialPass ==
    tree_probabilities_are_written =>
        /\ table_is_ranked_and_cumulative(tree_probabilities(topology_counter))
        /\ tree_probabilities(topology_counter)
                = tree_probabilities(count_topologies(<< >>, trees_in_order(support_filepaths),
                                                      taxon_namespace))

\* what holds of the table in both modes
TreeProbabilityTableIsRankedAndCumulative ==
    tree_probabilities_are_written =>
        table_is_ranked_and_cumulative(tree_probabilities(topology_counter))

\* what holds of the table in the serial mode
SerialTreeProbabilityTableHasTiesInOrderFirstMet ==
    (tree_probabilities_are_written /\ ~runs_parallel) =>
        tree_probabilities(topology_counter)
            = tree_probabilities(count_topologies(<< >>, trees_in_order(support_filepaths),
                                                  taxon_namespace))

====
